---- MODULE Spec2Model ----
(***************************************************************************)
(* EMG v8.5 Memory Core: the binary backup pipeline of src/lib/backup-utils *)
(* and the page / BackupManager / API-route operations that drive it.       *)
(*                                                                          *)
(* Texts are sequences of UTF-16 code units (integers 0..65535).  A bit     *)
(* string is a sequence of 0/1, a byte array a sequence of 0..255.  JS      *)
(* values are records [t |-> tag, v |-> payload]:                           *)
(*   "undef" | "null" | "bool" (v: BOOLEAN) | "num" (v: Int) |              *)
(*   "str" (v: text) | "arr" (v: sequence of values) |                      *)
(*   "obj" (v: sequence of [k |-> text, v |-> value], insertion order).     *)
(***************************************************************************)
EXTENDS Integers, Sequences, FiniteSets, TLC

\* ------------------------------------------------------------------ bounds
\* Longest conversation the chat action builds (messages).
MaxHistory == 2

\* Largest export (bytes) the user cuts short and loads back.
MaxFileBytes == 300

\* Longest byte array of SampleByteArrays.
MaxSampleLen == 2

\* --------------------------------------------------------- text literals
K_version == <<118, 101, 114, 115, 105, 111, 110>>
K_timestamp == <<116, 105, 109, 101, 115, 116, 97, 109, 112>>
K_conversationHistory == <<99, 111, 110, 118, 101, 114, 115, 97, 116, 105, 111, 110, 72, 105, 115, 116, 111, 114, 121>>
K_metadata == <<109, 101, 116, 97, 100, 97, 116, 97>>
K_messageCount == <<109, 101, 115, 115, 97, 103, 101, 67, 111, 117, 110, 116>>
K_generatedBy == <<103, 101, 110, 101, 114, 97, 116, 101, 100, 66, 121>>
K_messages == <<109, 101, 115, 115, 97, 103, 101, 115>>
K_role == <<114, 111, 108, 101>>
K_text == <<116, 101, 120, 116>>
\* "EMG_CORE_v8.5"
S_generator == <<69, 77, 71, 95, 67, 79, 82, 69, 95, 118, 56, 46, 53>>
S_user == <<117, 115, 101, 114>>
S_ai == <<97, 105>>
S_system == <<115, 121, 115, 116, 101, 109>>
\* "8.5", the default version tag
S_v85 == <<56, 46, 53>>
S_null == <<110, 117, 108, 108>>
S_true == <<116, 114, 117, 101>>
S_false == <<102, 97, 108, 115, 101>>
\* new Date().toISOString(): one instant of the clock, "2026-01-01T00:00:00.000Z"
\* 'Memory injection complete. Loaded **'
S_injectA ==
  <<77, 101, 109, 111, 114, 121, 32, 105, 110, 106, 101, 99, 116, 105, 111,
    110, 32, 99, 111, 109, 112, 108, 101, 116, 101, 46, 32, 76, 111, 97, 100,
    101, 100, 32, 42, 42>>
\* ' historical exchanges**. Context window expanded.'
S_injectB ==
  <<32, 104, 105, 115, 116, 111, 114, 105, 99, 97, 108, 32, 101, 120, 99,
    104, 97, 110, 103, 101, 115, 42, 42, 46, 32, 67, 111, 110, 116, 101, 120,
    116, 32, 119, 105, 110, 100, 111, 119, 32, 101, 120, 112, 97, 110, 100,
    101, 100, 46>>
\* 'Memory restoration complete. Loaded **'
S_restoreA ==
  <<77, 101, 109, 111, 114, 121, 32, 114, 101, 115, 116, 111, 114, 97, 116,
    105, 111, 110, 32, 99, 111, 109, 112, 108, 101, 116, 101, 46, 32, 76,
    111, 97, 100, 101, 100, 32, 42, 42>>
\* ' historical exchanges** from backup.'
S_restoreB ==
  <<32, 104, 105, 115, 116, 111, 114, 105, 99, 97, 108, 32, 101, 120, 99,
    104, 97, 110, 103, 101, 115, 42, 42, 32, 102, 114, 111, 109, 32, 98, 97,
    99, 107, 117, 112, 46>>
\* 'undefined'
S_undefined ==
  <<117, 110, 100, 101, 102, 105, 110, 101, 100>>

S_iso == <<50, 48, 50, 54, 45, 48, 49, 45, 48, 49, 84, 48, 48, 58, 48, 48, 58, 48, 48, 46, 48, 48, 48, 90>>

\* ------------------------------------------------------------- JS values
JUndef == [t |-> "undef", v |-> 0]
JNull == [t |-> "null", v |-> 0]
JBool(b) == [t |-> "bool", v |-> b]
JNum(n) == [t |-> "num", v |-> n]
JStr(s) == [t |-> "str", v |-> s]
JArr(xs) == [t |-> "arr", v |-> xs]
JObj(es) == [t |-> "obj", v |-> es]
KV(key, val) == [k |-> key, v |-> val]

\* Array.isArray(x)
IsArray(x) == x.t = "arr"

\* ToBoolean(x), as used by || and by `if (x)`
Truthy(x) ==
  CASE x.t = "undef" -> FALSE
    [] x.t = "null" -> FALSE
    [] x.t = "bool" -> x.v
    [] x.t = "num" -> x.v # 0
    [] x.t = "str" -> Len(x.v) > 0
    [] OTHER -> TRUE

\* a || b
Or(a, b) == IF Truthy(a) THEN a ELSE b

\* Index of the entry of key `key` in the entry list `es`, 0 when absent.
KeyIndex(es, key) ==
  IF \E i \in 1..Len(es) : es[i].k = key
    THEN CHOOSE i \in 1..Len(es) : es[i].k = key
    ELSE 0

\* x.key for a non-null, non-undefined x whose own/prototype chain has no
\* accessor of that name: an object's own property, else undefined.
GetProp(x, key) ==
  IF x.t = "obj" /\ KeyIndex(x.v, key) # 0
    THEN x.v[KeyIndex(x.v, key)].v
    ELSE JUndef

\* Property access throws a TypeError exactly on null and undefined.
PropThrows(x) == x.t \in {"null", "undef"}

\* x.length: defined for arrays and strings, undefined otherwise.
LengthOf(x) == IF x.t \in {"arr", "str"} THEN JNum(Len(x.v)) ELSE JUndef

\* `const v = x; ... v ...`, written Only({(... v ...) : v \in {x}}): x is
\* computed once and the rest works on its value.
Only(S) == CHOOSE y \in S : TRUE

\* ------------------------------------------------------- JSON.stringify
RECURSIVE Flatten(_)
\* Concatenation of a sequence of sequences (halving keeps the recursion shallow).
Flatten(ss) ==
  Only({(
    IF Len(v) = 0 THEN <<>>
    ELSE IF Len(v) = 1 THEN v[1]
    ELSE Flatten(SubSeq(v, 1, Len(v) \div 2))
         \o Flatten(SubSeq(v, Len(v) \div 2 + 1, Len(v)))) : v \in {ss}})

RECURSIVE Digits(_)
\* Decimal text of a natural number.
Digits(n) == IF n < 10 THEN <<48 + n>> ELSE Digits(n \div 10) \o <<48 + (n % 10)>>

\* Number::toString for an integer.
NumText(n) == IF n < 0 THEN <<45>> \o Digits(0 - n) ELSE Digits(n)

\* Lower-case hexadecimal digit.
HexDigit(d) == IF d < 10 THEN 48 + d ELSE 87 + d

\* "\uXXXX" escape of a code unit.
UnicodeEscape(c) ==
  <<92, 117, HexDigit(c \div 4096), HexDigit((c \div 256) % 16),
    HexDigit((c \div 16) % 16), HexDigit(c % 16)>>

IsLeadSurrogate(c) == c >= 55296 /\ c <= 56319
IsTrailSurrogate(c) == c >= 56320 /\ c <= 57343

\* QuoteJSONString, one code unit of s at index i.
QuoteUnit(s, i) ==
  LET c == s[i] IN
  CASE c = 34 -> <<92, 34>>
    [] c = 92 -> <<92, 92>>
    [] c = 8 -> <<92, 98>>
    [] c = 9 -> <<92, 116>>
    [] c = 10 -> <<92, 110>>
    [] c = 12 -> <<92, 102>>
    [] c = 13 -> <<92, 114>>
    [] c < 32 -> UnicodeEscape(c)
    [] IsLeadSurrogate(c) ->
         IF i < Len(s) /\ IsTrailSurrogate(s[i + 1]) THEN <<c>> ELSE UnicodeEscape(c)
    [] IsTrailSurrogate(c) ->
         IF i > 1 /\ IsLeadSurrogate(s[i - 1]) THEN <<c>> ELSE UnicodeEscape(c)
    [] OTHER -> <<c>>

\* QuoteJSONString(s)
Quote(s) ==
  Only({(<<34>> \o Flatten([i \in 1..Len(v) |-> QuoteUnit(v, i)]) \o <<34>>
  ) : v \in {s}})

\* Comma-joined concatenation of the texts in ts.
JoinComma(ts) ==
  Only({(Flatten([i \in 1..Len(v) |-> IF i = 1 THEN v[i] ELSE <<44>> \o v[i]])
  ) : v \in {ts}})

RECURSIVE Stringify(_)
\* JSON.stringify(x) for a defined x: properties whose value is undefined
\* are omitted, undefined array elements are written as null.
Stringify(x) ==
  Only({(
    CASE y.t = "null" -> S_null
      [] y.t = "undef" -> S_null
      [] y.t = "bool" -> IF y.v THEN S_true ELSE S_false
      [] y.t = "num" -> NumText(y.v)
      [] y.t = "str" -> Quote(y.v)
      [] y.t = "arr" ->
           <<91>> \o JoinComma([i \in 1..Len(y.v) |-> Stringify(y.v[i])]) \o <<93>>
      [] y.t = "obj" ->
           Only({(
             <<123>>
             \o JoinComma([i \in 1..Len(es) |->
                             Quote(es[i].k) \o <<58>> \o Stringify(es[i].v)])
             \o <<125>>) : es \in {SelectSeq(y.v, LAMBDA e : e.v.t # "undef")}})
             ) : y \in {x}})

\* ----------------------------------------------------------- JSON.parse
\* Parser results: [ok, val, pos] with pos the index after the value read.
PFail == [ok |-> FALSE, val |-> JUndef, pos |-> 0]
POk(x, p) == [ok |-> TRUE, val |-> x, pos |-> p]

\* JSON whitespace: tab, line feed, carriage return, space.
IsWs(c) == c \in {9, 10, 13, 32}
IsDigit(c) == c >= 48 /\ c <= 57
IsHex(c) == IsDigit(c) \/ (c >= 97 /\ c <= 102) \/ (c >= 65 /\ c <= 70)
HexVal(c) == IF IsDigit(c) THEN c - 48 ELSE IF c >= 97 THEN c - 87 ELSE c - 55

RECURSIVE SkipWs(_, _)
\* First index at or after i that holds no whitespace (Len(s) + 1 at the end).
SkipWs(s, i) == IF i <= Len(s) /\ IsWs(s[i]) THEN SkipWs(s, i + 1) ELSE i

\* Does the literal lit stand in s at index i?
Matches(s, i, lit) ==
  /\ i + Len(lit) - 1 <= Len(s)
  /\ \A j \in 1..Len(lit) : s[i + j - 1] = lit[j]

\* The character a one-letter escape stands for, 0 when it is no escape.
EscapeChar(e) ==
  CASE e = 34 -> 34
    [] e = 92 -> 92
    [] e = 47 -> 47
    [] e = 98 -> 8
    [] e = 102 -> 12
    [] e = 110 -> 10
    [] e = 114 -> 13
    [] e = 116 -> 9
    [] OTHER -> 0

\* Number of consecutive backslashes right before index p, not looking
\* before index lo.
BackslashRun(s, lo, p) ==
  IF p - 1 < lo \/ s[p - 1] # 92 THEN 0
  ELSE LET q == CHOOSE q \in (lo - 1)..(p - 1) :
                  /\ q = lo - 1 \/ s[q] # 92
                  /\ \A r \in (q + 1)..(p - 1) : s[r] = 92
       IN p - 1 - q

\* The rest of a string literal, s[i] being the unit after the opening quote:
\* it ends at the first quote that no backslash escapes; inside it a control
\* character or a malformed escape is a SyntaxError.
ParseString(s, start) ==
  Only({(
  LET EscStart(p) == s[p] = 92 /\ BackslashRun(s, i, p) % 2 = 0
      Escaped(p) == p > i /\ EscStart(p - 1)
      Closes(q) == s[q] = 34 /\ BackslashRun(s, i, q) % 2 = 0
  IN IF ~\E q \in i..Len(s) : Closes(q) THEN PFail
     ELSE
       Only({(
       LET HexOf(p) == \E d \in 1..4 : p - d > i /\ s[p - d] = 117 /\ Escaped(p - d)
           UnicodeOk(p) == p + 4 <= j - 1 /\ \A d \in 1..4 : IsHex(s[p + d])
           valid == \A p \in i..(j - 1) :
                      IF EscStart(p) THEN TRUE
                      ELSE IF Escaped(p)
                        THEN IF s[p] = 117 THEN UnicodeOk(p) ELSE EscapeChar(s[p]) # 0
                      ELSE s[p] >= 32
           Emit(p) ==
             IF EscStart(p) THEN <<>>
             ELSE IF Escaped(p) THEN
               IF s[p] = 117
                 THEN <<HexVal(s[p + 1]) * 4096 + HexVal(s[p + 2]) * 256
                        + HexVal(s[p + 3]) * 16 + HexVal(s[p + 4])>>
                 ELSE <<EscapeChar(s[p])>>
             ELSE IF HexOf(p) THEN <<>>
             ELSE <<s[p]>>
       IN IF valid
            THEN POk(JStr(Flatten([n \in 1..(j - i) |-> Emit(i + n - 1)])), j + 1)
            ELSE PFail
            ) : j \in {CHOOSE q \in i..Len(s) : Closes(q) /\ \A k \in i..(q - 1) : ~Closes(k)}})
            ) : i \in {start}})

RECURSIVE ParseDigits(_, _, _)
\* A run of decimal digits from index i: [n |-> value, pos |-> index after it].
ParseDigits(s, i, n) ==
  IF i <= Len(s) /\ IsDigit(s[i])
    THEN ParseDigits(s, i + 1, n * 10 + (s[i] - 48))
    ELSE [n |-> n, pos |-> i]

\* A number, integers only: -?(0|[1-9][0-9]*).  Fractions and exponents are
\* outside the modelled grammar; no text the model feeds the parser has one.
ParseNumber(s, i) ==
  LET neg == s[i] = 45
      j == IF neg THEN i + 1 ELSE i
  IN IF j > Len(s) \/ ~IsDigit(s[j]) THEN PFail
     ELSE IF s[j] = 48 THEN POk(JNum(0), j + 1)
     ELSE LET d == ParseDigits(s, j, 0)
          IN POk(JNum(IF neg THEN 0 - d.n ELSE d.n), d.pos)

\* obj[key] = val on an entry list: an existing key keeps its position.
SetProp(es, key, val) ==
  IF KeyIndex(es, key) # 0
    THEN [es EXCEPT ![KeyIndex(es, key)] = KV(key, val)]
    ELSE Append(es, KV(key, val))

RECURSIVE ParseValue(_, _)
RECURSIVE ParseElements(_, _, _)
RECURSIVE ParseMembers(_, _, _)

\* A JSON value starting at index i (whitespace already skipped).
ParseValue(s, start) ==
  Only({(
  IF i > Len(s) THEN PFail
  ELSE LET c == s[i] IN
    CASE c = 110 -> IF Matches(s, i, S_null) THEN POk(JNull, i + 4) ELSE PFail
      [] c = 116 -> IF Matches(s, i, S_true) THEN POk(JBool(TRUE), i + 4) ELSE PFail
      [] c = 102 -> IF Matches(s, i, S_false) THEN POk(JBool(FALSE), i + 5) ELSE PFail
      [] c = 34 -> ParseString(s, i + 1)
      [] c = 45 \/ IsDigit(c) -> ParseNumber(s, i)
      [] c = 91 ->
           LET j == SkipWs(s, i + 1) IN
           IF j <= Len(s) /\ s[j] = 93 THEN POk(JArr(<<>>), j + 1)
           ELSE ParseElements(s, j, <<>>)
      [] c = 123 ->
           LET j == SkipWs(s, i + 1) IN
           IF j <= Len(s) /\ s[j] = 125 THEN POk(JObj(<<>>), j + 1)
           ELSE ParseMembers(s, j, <<>>)
      [] OTHER -> PFail) : i \in {start}})

\* The elements of an array from index i on, acc holding those already read.
ParseElements(s, i, acc) ==
  Only({(
  IF ~r.ok THEN PFail
  ELSE Only({(
    IF j > Len(s) THEN PFail
    ELSE IF s[j] = 93 THEN POk(JArr(Append(acc, r.val)), j + 1)
    ELSE IF s[j] = 44 THEN ParseElements(s, SkipWs(s, j + 1), Append(acc, r.val))
    ELSE PFail) : j \in {SkipWs(s, r.pos)}})) : r \in {ParseValue(s, i)}})

\* The members of an object from index i on, acc holding those already read.
ParseMembers(s, start, members) ==
  Only({(
  LET i == a[1]
      acc == a[2]
  IN
  IF i > Len(s) \/ s[i] # 34 THEN PFail
  ELSE Only({(
    IF ~k.ok THEN PFail
    ELSE Only({(
      IF c > Len(s) \/ s[c] # 58 THEN PFail
      ELSE Only({(
        IF ~r.ok THEN PFail
        ELSE Only({(
          LET j == n[1]
              es == n[2]
          IN IF j > Len(s) THEN PFail
             ELSE IF s[j] = 125 THEN POk(JObj(es), j + 1)
             ELSE IF s[j] = 44 THEN ParseMembers(s, SkipWs(s, j + 1), es)
             ELSE PFail) : n \in {<<SkipWs(s, r.pos), SetProp(acc, k.val.v, r.val)>>}})
             ) : r \in {ParseValue(s, SkipWs(s, c + 1))}})
             ) : c \in {SkipWs(s, k.pos)}})
             ) : k \in {ParseString(s, i + 1)}})
             ) : a \in {<<start, members>>}})

\* JSON.parse(text): [ok |-> FALSE] stands for the SyntaxError it throws.
JSONParse(text) ==
  Only({(
    Only({(
      IF r.ok /\ SkipWs(s, r.pos) = Len(s) + 1 THEN r ELSE PFail
      ) : r \in {ParseValue(s, SkipWs(s, 1))}})
      ) : s \in {text}})

\* ------------------------------------------------- bit strings and bytes
RECURSIVE ToBinary(_)
\* Number.prototype.toString(2) of a non-negative integer, as 0/1 digits.
ToBinary(n) == IF n < 2 THEN <<n>> ELSE ToBinary(n \div 2) \o <<n % 2>>

\* String.prototype.padStart(8, '0'): pads a short text, never cuts a long one.
PadStart8(b) == IF Len(b) >= 8 THEN b ELSE [i \in 1..(8 - Len(b)) |-> 0] \o b

\* c.toString(2).padStart(8, '0')
CharBits(c) == PadStart8(ToBinary(c))

\* String.prototype.substring(a, b) for 0 <= a <= b, clamped to the length.
Substring(s, a, b) == SubSeq(s, a + 1, IF b < Len(s) THEN b ELSE Len(s))

RECURSIVE ParseIntBin(_)
\* parseInt(b, 2) of a text of 0/1 digits.  The empty text gives NaN, which
\* both a Uint8Array store and String.fromCharCode coerce to 0.
ParseIntBin(b) ==
  Only({(
    IF v = <<>> THEN 0 ELSE 2 * ParseIntBin(SubSeq(v, 1, Len(v) - 1)) + v[Len(v)]
    ) : v \in {b}})

\* An envelope whose metadata.messageCount is not taken from the history.
Envelope_StaleCount(history, version, now) ==
  JObj(<<KV(K_version, JStr(version)),
         KV(K_timestamp, JStr(now)),
         KV(K_conversationHistory, history),
         KV(K_metadata, JObj(<<KV(K_messageCount, JNum(0)),
                               KV(K_generatedBy, JStr(S_generator))>>))>>)

\* The BinaryExportData envelope conversationToBinary builds.
Envelope(history, version, now) ==
  JObj(<<KV(K_version, JStr(version)),
         KV(K_timestamp, JStr(now)),
         KV(K_conversationHistory, history),
         KV(K_metadata, JObj(<<KV(K_messageCount, LengthOf(history)),
                               KV(K_generatedBy, JStr(S_generator))>>))>>)

\* A bit string that writes every code unit as its low 7 bits.
TextToBits_SevenBit(json) ==
  Only({(Flatten([i \in 1..Len(v) |-> SubSeq(CharBits(v[i] % 128), 2, 8)])
  ) : v \in {json}})

\* The bit string of a text: every code unit through CharBits, concatenated.
TextToBits(json) == Only({(Flatten([i \in 1..Len(v) |-> CharBits(v[i])])
) : v \in {json}})

\* conversationToBinary(conversationHistory, version), `now` being the clock.
conversationToBinary(history, version, now) ==
  TextToBits(Stringify(Envelope(history, version, now)))

\* A packer that keeps trailing bits in a last, short byte instead of
\* dropping them.
binaryToUint8Array_KeepRemainder(binaryString) ==
  Only({(
    [i \in 1..((Len(v) + 7) \div 8) |->
       ParseIntBin(Substring(v, (i - 1) * 8, (i - 1) * 8 + 8)) % 256]
       ) : v \in {binaryString}})

\* binaryToUint8Array(binaryString): new Uint8Array(length / 8) truncates a
\* fractional length (ToIndex); a Uint8Array element keeps the low 8 bits.
binaryToUint8Array(binaryString) ==
  Only({(
    [i \in 1..(Len(v) \div 8) |->
       ParseIntBin(Substring(v, (i - 1) * 8, (i - 1) * 8 + 8)) % 256]
       ) : v \in {binaryString}})

\* uint8ArrayToBinary(bytes)
uint8ArrayToBinary(bytes) ==
  Only({(Flatten([i \in 1..Len(v) |-> CharBits(v[i])])) : v \in {bytes}})

\* The regrouping loop `for (i = 0; i < length; i += 8)`: one code unit per
\* chunk of up to 8 bits, String.fromCharCode keeping the low 16 bits.
BitsToText(binaryString) ==
  Only({(
    [k \in 1..((Len(v) + 7) \div 8) |->
       ParseIntBin(Substring(v, (k - 1) * 8, (k - 1) * 8 + 8)) % 65536]
       ) : v \in {binaryString}})

\* A decoder that looks at conversationHistory before messages.
StrictHistory_HistoryFirst(data) ==
  IF IsArray(data) THEN data
  ELSE Or(GetProp(data, K_conversationHistory), Or(GetProp(data, K_messages), JArr(<<>>)))

\* The message list the strict decoder picks out of parsed JSON.
StrictHistory(data) ==
  IF IsArray(data) THEN data
  ELSE Or(GetProp(data, K_messages), Or(GetProp(data, K_conversationHistory), JArr(<<>>)))

\* A decoder that falls back to one system message when the text is no JSON,
\* as the file import does.
binaryToConversation_Fallback(bytes) ==
  Only({(
    Only({(
      IF ~parsed.ok
        THEN [success |-> TRUE,
              data |-> JArr(<<[t |-> "obj",
                               v |-> <<KV(K_role, JStr(S_system)), KV(K_text, JStr(text))>>]>>),
              error |-> "none"]
      ELSE IF ~IsArray(parsed.val) /\ PropThrows(parsed.val)
        THEN [success |-> FALSE, data |-> JUndef, error |-> "TypeError"]
      ELSE [success |-> TRUE, data |-> StrictHistory(parsed.val), error |-> "none"]
      ) : parsed \in {JSONParse(text)}})
      ) : text \in {BitsToText(uint8ArrayToBinary(bytes))}})

\* A decoder that rejects an envelope whose metadata.messageCount is not the
\* length of the list it carries.
binaryToConversation_CountChecked(bytes) ==
  Only({(
    Only({(
      IF ~parsed.ok
        THEN [success |-> FALSE, data |-> JUndef, error |-> "SyntaxError"]
      ELSE IF ~IsArray(parsed.val) /\ PropThrows(parsed.val)
        THEN [success |-> FALSE, data |-> JUndef, error |-> "TypeError"]
      ELSE IF /\ GetProp(parsed.val, K_metadata).t = "obj"
              /\ GetProp(GetProp(parsed.val, K_metadata), K_messageCount)
                   # LengthOf(StrictHistory(parsed.val))
        THEN [success |-> FALSE, data |-> JUndef, error |-> "CountMismatch"]
      ELSE [success |-> TRUE, data |-> StrictHistory(parsed.val), error |-> "none"]
      ) : parsed \in {JSONParse(text)}})
      ) : text \in {BitsToText(uint8ArrayToBinary(bytes))}})

\* binaryToConversation(bytes): every exception ends in success = false.
binaryToConversation(bytes) ==
  Only({(
    Only({(
      IF ~parsed.ok
        THEN [success |-> FALSE, data |-> JUndef, error |-> "SyntaxError"]
      ELSE IF ~IsArray(parsed.val) /\ PropThrows(parsed.val)
        THEN [success |-> FALSE, data |-> JUndef, error |-> "TypeError"]
      ELSE [success |-> TRUE, data |-> StrictHistory(parsed.val), error |-> "none"]
      ) : parsed \in {JSONParse(text)}})
      ) : text \in {BitsToText(uint8ArrayToBinary(bytes))}})

\* Is c white space for String.prototype.trim()?  (Among the code units
\* below 256, all that an 8-bit group can give.)
IsTrimSpace(c) == c \in {9, 10, 11, 12, 13, 32, 160}

\* String.prototype.trim()
Trim(s) ==
  Only({(IF \A i \in 1..Len(v) : IsTrimSpace(v[i]) THEN <<>>
         ELSE SubSeq(v,
                     CHOOSE i \in 1..Len(v) :
                       ~IsTrimSpace(v[i]) /\ \A j \in 1..(i - 1) : IsTrimSpace(v[j]),
                     CHOOSE i \in 1..Len(v) :
                       ~IsTrimSpace(v[i]) /\ \A j \in (i + 1)..Len(v) : IsTrimSpace(v[j])))
        : v \in {s}})

\* decodeBitstream(content): the characters '0' and '1' of the content, in
\* groups of 8; a group of fewer than 8 is skipped; the text is trimmed.
decodeBitstream(content) ==
  Only({(Trim(Flatten([k \in 1..((Len(bits) + 7) \div 8) |->
                        LET byte == Substring(bits, (k - 1) * 8, (k - 1) * 8 + 8)
                        IN IF Len(byte) = 8
                             THEN <<ParseIntBin([n \in 1..8 |-> byte[n] - 48]) % 65536>>
                             ELSE <<>>])))
        : bits \in {SelectSeq(content, LAMBDA c : c \in {48, 49})}})

\* ----------------------------------------------------------------- base64
\* The character of a 6-bit value in the base64 alphabet.
B64Char(v) ==
  IF v < 26 THEN 65 + v
  ELSE IF v < 52 THEN 71 + v
  ELSE IF v < 62 THEN v - 4
  ELSE IF v = 62 THEN 43 ELSE 47

\* Is c a character the decoder reads (base64 or base64url alphabet)?
IsB64(c) ==
  \/ (c >= 65 /\ c <= 90) \/ (c >= 97 /\ c <= 122) \/ IsDigit(c)
  \/ c \in {43, 47, 45, 95}

\* The 6-bit value of a base64 character.
B64Val(c) ==
  IF c >= 65 /\ c <= 90 THEN c - 65
  ELSE IF c >= 97 /\ c <= 122 THEN c - 71
  ELSE IF IsDigit(c) THEN c + 4
  ELSE IF c \in {43, 45} THEN 62 ELSE 63

\* Buffer.from(bytes).toString('base64')
ToBase64(input) ==
  Only({(
  LET n == Len(bytes)
      At(i) == IF i <= n THEN bytes[i] ELSE 0
  IN [j \in 1..(4 * ((n + 2) \div 3)) |->
       LET g == (j - 1) \div 4
           b0 == At(3 * g + 1)
           b1 == At(3 * g + 2)
           b2 == At(3 * g + 3)
       IN CASE (j - 1) % 4 = 0 -> B64Char(b0 \div 4)
            [] (j - 1) % 4 = 1 -> B64Char((b0 % 4) * 16 + b1 \div 16)
            [] (j - 1) % 4 = 2 ->
                 IF 3 * g + 2 > n THEN 61 ELSE B64Char((b1 % 16) * 4 + b2 \div 64)
            [] OTHER -> IF 3 * g + 3 > n THEN 61 ELSE B64Char(b2 % 64)]
            ) : bytes \in {input}})

\* Buffer.from(text, 'base64'): reads up to the first '=', skips characters
\* outside the alphabet, and drops a trailing partial byte.
FromBase64(input) ==
  Only({(
  LET stop == IF \E i \in 1..Len(text) : text[i] = 61
                THEN (CHOOSE i \in 1..Len(text) :
                        text[i] = 61 /\ \A j \in 1..(i - 1) : text[j] # 61) - 1
                ELSE Len(text)
  IN Only({(
       LET V(i) == B64Val(sx[i]) IN
       [i \in 1..((Len(sx) * 6) \div 8) |->
          LET g == (i - 1) \div 3 IN
          CASE (i - 1) % 3 = 0 -> V(4 * g + 1) * 4 + V(4 * g + 2) \div 16
            [] (i - 1) % 3 = 1 -> (V(4 * g + 2) % 16) * 16 + V(4 * g + 3) \div 4
            [] OTHER -> (V(4 * g + 3) % 4) * 64 + V(4 * g + 4)]
            ) : sx \in {SelectSeq(SubSeq(text, 1, stop), IsB64)}})
            ) : text \in {input}})

\* binaryToBase64(binaryString)
binaryToBase64(binaryString) == ToBase64(binaryToUint8Array(binaryString))

\* ------------------------------------------------------------ the inputs
\* A chat message as handleChat / queryAI store it.
Message(role, text, now) ==
  JObj(<<KV(K_role, JStr(role)), KV(K_text, JStr(text)), KV(K_timestamp, JStr(now))>>)

\* A message without a timestamp (the field is optional).
BareMessage(role, text) == JObj(<<KV(K_role, JStr(role)), KV(K_text, JStr(text))>>)

\* What the user types: a text of code units below 256 (a quote and the
\* Latin-1 letter 233), and a text with a code unit above 255 (8364, the euro).
Prompts == {<<34, 233>>, <<8364>>}

\* What the chat service answers: "ok".
Replies == {<<111, 107>>}

\* Version tags: the default "8.5" and a tag above 255.
Versions == {S_v85, <<8364>>}

PM1 == BareMessage(S_user, <<97>>)
PM2 == BareMessage(S_ai, <<98>>)

\* The JSON text [{"role":"user","text":"\u20ac"}]: the euro written as a
\* JSON escape, so that every code unit of the text fits a byte.
EscapedEuroText ==
  <<91, 123, 34>> \o K_role \o <<34, 58, 34>> \o S_user \o <<34, 44, 34>> \o K_text
    \o <<34, 58, 34, 92, 117, 50, 48, 97, 99, 34, 125, 93>>

\* A BinaryExportData envelope written by another producer: any version tag,
\* any timestamp, any metadata.messageCount.
ForeignEnvelope(history, version, now, messageCount) ==
  JObj(<<KV(K_version, JStr(version)),
         KV(K_timestamp, JStr(now)),
         KV(K_conversationHistory, history),
         KV(K_metadata, JObj(<<KV(K_messageCount, messageCount),
                               KV(K_generatedBy, JStr(S_generator))>>))>>)

\* Texts that reach the decoders from outside the encoder (a file the user
\* picks, a body a client posts): every shape the decoders tell apart.
PayloadTexts ==
  << Stringify(JArr(<<PM1, PM2>>)),
     Stringify(JObj(<<KV(K_conversationHistory, JArr(<<PM1>>)),
                      KV(K_messages, JArr(<<PM2>>))>>)),
     Stringify(JObj(<<KV(K_messages, JNum(0)),
                      KV(K_conversationHistory, JArr(<<PM1>>))>>)),
     Stringify(JObj(<<KV(K_version, JStr(S_v85))>>)),
     Stringify(JObj(<<KV(K_messages, JStr(<<97>>))>>)),
     S_null,
     Stringify(JNum(5)),
     Stringify(JStr(<<97>>)),
     <<123, 34, 97>>,
     EscapedEuroText,
     Stringify(Envelope(JArr(<<PM1>>), S_v85, S_iso)),
     Stringify(ForeignEnvelope(JArr(<<PM1>>), <<57>>, <<50, 48, 50, 55>>, JNum(7))) >>

PayloadIds == 1..Len(PayloadTexts)

\* The API key the user has.
Keys == {"key"}

\* The ids the MemoryBackup table hands out, in this order and never twice.
BackupIds == {1}

\* page.tsx: useState(5), the auto-save interval in minutes.
DefaultInterval == 5

\* Byte arrays handed to both unpackings: every array of at most
\* MaxSampleLen bytes among the least, the greatest and the bytes around the
\* sign bit.
SampleByteArrays == UNION {[1..n -> {0, 1, 127, 128, 255}] : n \in 0..MaxSampleLen}

\* The bytes of a payload text (all its code units are below 256).
PayloadBytes == [i \in PayloadIds |-> PayloadTexts[i]]

\* The base64 body a client posts for each payload.
PayloadBase64 == [i \in PayloadIds |-> ToBase64(PayloadBytes[i])]

\* A byte array without its final byte.
DropLastByte(bytes) == SubSeq(bytes, 1, Len(bytes) - 1)

\* ------------------------------------------------------------- the state
VARIABLES
  conversationHistory,     \* page.tsx: useState<Message[]>([])
  originalBinaryFileName,  \* page.tsx: useState<string | null>(null)
  binaryStatus,            \* page.tsx: [k |-> kind, n |-> fragment count]
  backups,                 \* the MemoryBackup table: a set of records
  nextId,                  \* ids the table has handed out, plus one
  lastOp,                  \* the last operation: its name, the backup id or
                           \* the file it was given, the toasts it raised
  chatSinceSave,           \* history: has a chat appended since the last save?
  autoSaveEnabled,         \* page.tsx: useState(false)
  autoSaveInterval,        \* page.tsx: useState(5), in minutes
  timers,                  \* the browser's active setInterval timers
  cleanup,                 \* the timer id the effect's cleanup will clear, 0 if none
  response,                \* HTTP status the last operation got from /api/backups,
                           \* 0 if it made no request
  changedSinceSave,        \* history: was conversationHistory set since the last save?
  apiKey,                  \* page.tsx: useState('')
  savedKey,                \* localStorage 'emg_key'
  status,                  \* page.tsx: useState<ConnectionStatus>('offline')
  memory,                  \* page.tsx: useState<MemoryFragment[]>([])
  isSaving,                \* BackupManager: useState(false)
  inflight,                \* the saveBackup calls awaiting their POST's answer
  lastCall                 \* the last call of a display helper: name, input, result

vars == <<conversationHistory, originalBinaryFileName, binaryStatus, backups,
          nextId, lastOp, chatSinceSave, autoSaveEnabled, autoSaveInterval,
          timers, cleanup, response, changedSinceSave, apiKey, savedKey,
          status, memory, isSaving, inflight, lastCall>>

NoFile == [name |-> "none", id |-> 0, bytes |-> <<>>]
NoCall == [fn |-> "none", arg |-> 0, out |-> <<>>]
NoName == "null"

Status(kind, n) == [k |-> kind, n |-> n]
Op(name, id, file, toasts) == [op |-> name, id |-> id, file |-> file, toasts |-> toasts]

Init ==
  /\ conversationHistory = JArr(<<>>)
  /\ originalBinaryFileName = NoName
  /\ binaryStatus = Status("waiting", JUndef)
  /\ backups = {}
  /\ nextId = 1
  /\ lastOp = Op("init", 0, NoFile, <<>>)
  /\ chatSinceSave = FALSE
  /\ autoSaveEnabled = FALSE
  /\ autoSaveInterval = DefaultInterval
  /\ timers = {}
  /\ cleanup = 0
  /\ response = 0
  /\ changedSinceSave = FALSE
  /\ apiKey = ""
  /\ savedKey = ""
  /\ status = "offline"
  /\ memory = <<>>
  /\ isSaving = FALSE
  /\ inflight = {}
  /\ lastCall = NoCall

pageVars == <<conversationHistory, originalBinaryFileName, binaryStatus>>
settingVars == <<autoSaveEnabled, autoSaveInterval>>
keyVars == <<apiKey, savedKey>>
chatVars == <<apiKey, savedKey, status, memory>>
savingVars == <<isSaving, inflight>>
timerVars == <<timers, cleanup>>

\* ------------------------------------------------- the auto-save effect
\* A timer setInterval started: its id, its delay in minutes, the minutes
\* since it was started or last fired, and the conversationHistory its
\* callback closed over.
Timer(id, delay, history) ==
  [id |-> id, delay |-> delay, elapsed |-> 0, history |-> history]

\* The id setInterval returns: one no active timer has.
FreshTimerId(active) ==
  CHOOSE i \in 1..(Cardinality(active) + 1) : \A t \in active : t.id # i

\* An effect that starts its timer without clearing the one before.
AutoSaveEffect_NoCleanup(enabled, interval, history) ==
  IF enabled /\ interval > 0
    THEN \E id \in {FreshTimerId(timers)} :
           /\ timers' = timers \cup {Timer(id, interval, history)}
           /\ cleanup' = id
    ELSE /\ timers' = timers
         /\ cleanup' = 0

\* BackupManager's auto-save effect, run again whenever autoSaveEnabled,
\* autoSaveInterval or conversationHistory changes: the cleanup of the run
\* before clears its timer, then a timer is started unless auto-save is off
\* or the interval is not positive.
AutoSaveEffect(enabled, interval, history) ==
  \E kept \in {{t \in timers : t.id # cleanup}} :
    IF enabled /\ interval > 0
      THEN \E id \in {FreshTimerId(kept)} :
             /\ timers' = kept \cup {Timer(id, interval, history)}
             /\ cleanup' = id
      ELSE /\ timers' = kept
           /\ cleanup' = 0

\* -------------------------------------------------------------- the chat
\* A memory that keeps its first 6 fragments.
updateMemory_KeepFirst(prev, role, text) ==
  LET newMemory == Append(prev, [role |-> role, text |-> text])
  IN SubSeq(newMemory, 1, IF Len(newMemory) > 6 THEN 6 ELSE Len(newMemory))

\* updateMemory(role, text): the fragment is appended and the last 6 kept.
updateMemory(prev, role, text) ==
  LET newMemory == Append(prev, [role |-> role, text |-> text])
  IN SubSeq(newMemory, IF Len(newMemory) > 6 THEN Len(newMemory) - 5 ELSE 1, Len(newMemory))

\* `${x.length}` in a template text: the digits, or 'undefined'.
LengthText(x) == IF LengthOf(x).t = "num" THEN NumText(LengthOf(x).v) ELSE S_undefined

\* `setStatus(status === 'online' ? 'online' : 'offline')`, status being the
\* value the handler closed over when it was called.
StatusAfter(closed) == IF closed = "online" THEN "online" ELSE "offline"

\* queryAI's context loop `conversationHistory.slice(-5).forEach(msg => ...
\* msg.role ... msg.text)`, entered when conversationHistory.length > 0 and
\* outside the try: a string has no forEach, and a null element has no role.
HistoryThrows(history) ==
  \/ history.t = "str" /\ Len(history.v) > 0
  \/ /\ IsArray(history)
     /\ \E i \in 1..Len(history.v) :
          i > Len(history.v) - 5 /\ PropThrows(history.v[i])

\* Does a successful exchange get appended to conversationHistory?
ChatAppends(history) == IsArray(history) /\ ~HistoryThrows(history)
\* handleChat on a text no gate takes, with an API key and an answering
\* service (queryAI, the success path): the user's fragment enters memory,
\* the status goes to 'processing', the reply enters memory, the exchange is
\* appended to conversationHistory and the status is set back.  When the
\* context loop throws, the handler ends there: the status stays
\* 'processing' and nothing is appended.
Chat(prompt, reply) ==
  /\ status # "processing"
  /\ apiKey # ""
  /\ conversationHistory.t \in {"arr", "str"} =>
       Len(conversationHistory.v) + 2 <= MaxHistory
  /\ IF HistoryThrows(conversationHistory)
       THEN /\ memory' = updateMemory(memory, S_user, prompt)
            /\ status' = "processing"
       ELSE /\ memory' = updateMemory(updateMemory(memory, S_user, prompt), S_ai, reply)
            /\ status' = StatusAfter(status)
  /\ UNCHANGED <<keyVars, savingVars, lastCall>>
  /\ conversationHistory' =
       IF ChatAppends(conversationHistory)
         THEN JArr(conversationHistory.v
                   \o <<Message(S_user, prompt, S_iso), Message(S_ai, reply, S_iso)>>)
         ELSE conversationHistory
  /\ lastOp' = Op("chat", 0, NoFile, <<>>)
  /\ chatSinceSave' = (chatSinceSave \/ ChatAppends(conversationHistory))
  /\ changedSinceSave' = (changedSinceSave \/ ChatAppends(conversationHistory))
  /\ IF ChatAppends(conversationHistory)
       THEN AutoSaveEffect(autoSaveEnabled, autoSaveInterval, conversationHistory')
       ELSE UNCHANGED timerVars
  /\ response' = 0
  /\ UNCHANGED <<originalBinaryFileName, binaryStatus, backups, nextId, settingVars>>

\* The first exchange after the page has loaded: memory holds no fragment
\* of the user yet.
FirstChat(prompt, reply) ==
  /\ \A i \in 1..Len(memory) : memory[i].role # S_user
  /\ Chat(prompt, reply)

\* The key field: setApiKey(e.target.value).
SetApiKey(key) ==
  /\ key # apiKey
  /\ apiKey' = key
  /\ lastOp' = Op("key", 0, NoFile, <<>>)
  /\ response' = 0
  /\ UNCHANGED <<pageVars, backups, nextId, chatSinceSave, changedSinceSave,
                 settingVars, timerVars, savedKey, status, memory, savingVars,
                 lastCall>>

\* ------------------------------------------------------ the backup store
\* A POST that stores the length of the base64 text as fileSize.
PostBackup_TextLength(body, fileName, messageCount, source) ==
  Only({(
    IF binaryData = <<>> \/ fileName = ""
      THEN [ok |-> FALSE, rec |-> [id |-> 0]]
      ELSE [ok |-> TRUE,
            rec |-> [id |-> nextId,
                     fileName |-> fileName,
                     binaryData |-> binaryData,
                     messageCount |-> IF Truthy(messageCount) THEN messageCount ELSE JNum(0),
                     fileSize |-> Len(binaryData),
                     source |-> source]]) : binaryData \in {body}})

\* POST /api/backups: [ok |-> created?, rec |-> the record created].
\* `source` is not a column: it remembers the history a saveBackup encoded.
PostBackup(body, fileName, messageCount, source) ==
  Only({(
    IF binaryData = <<>> \/ fileName = ""
      THEN [ok |-> FALSE, rec |-> [id |-> 0]]
      ELSE [ok |-> TRUE,
            rec |-> [id |-> nextId,
                     fileName |-> fileName,
                     binaryData |-> binaryData,
                     messageCount |-> IF Truthy(messageCount) THEN messageCount ELSE JNum(0),
                     fileSize |-> Len(FromBase64(binaryData)),
                     source |-> source]]) : binaryData \in {body}})

\* db.memoryBackup.findUnique({ where: { id } })
HasBackup(id) == \E b \in backups : b.id = id
FindUnique(id) == CHOOSE b \in backups : b.id = id

\* GET /api/backups?id=...: 404 when the table has no such record, else 200
\* with the record.
GetBackup(id) ==
  IF HasBackup(id) THEN [status |-> 200, backup |-> FindUnique(id)]
  ELSE [status |-> 404, backup |-> [id |-> 0]]

\* GET /api/backups: the records of the table without their binaryData.
ListBackups ==
  {[id |-> b.id, fileName |-> b.fileName, messageCount |-> b.messageCount,
    fileSize |-> b.fileSize] : b \in backups}

\* BackupManager.saveBackup(): encode the current conversationHistory with
\* the default version tag and post it.
SaveBackup ==
  /\ nextId \in BackupIds
  /\ ~isSaving
  /\ isSaving' = FALSE
  /\ UNCHANGED <<chatVars, inflight, lastCall>>
  /\ \E r \in {PostBackup(
                   binaryToBase64(conversationToBinary(conversationHistory, S_v85, S_iso)),
                   "EMG_BACKUP.bin", LengthOf(conversationHistory), conversationHistory)} :
        IF r.ok
          THEN /\ backups' = backups \cup {r.rec}
               /\ nextId' = nextId + 1
               /\ lastOp' = Op("save", r.rec.id, NoFile, <<"Backup Saved">>)
               /\ chatSinceSave' = FALSE
               /\ changedSinceSave' = FALSE
               /\ response' = 200
          ELSE /\ UNCHANGED <<backups, nextId, chatSinceSave, changedSinceSave>>
               /\ lastOp' = Op("save", 0, NoFile, <<"Error">>)
               /\ response' = 400
  /\ UNCHANGED <<pageVars, settingVars, timerVars>>

\* Another client of POST /api/backups posting a payload of its own.
ClientPost(i) ==
  /\ nextId \in BackupIds
  /\ UNCHANGED <<chatVars, savingVars, lastCall>>
  /\ \E r \in {PostBackup(PayloadBase64[i], "client.bin", JUndef, JUndef)} :
        IF r.ok
          THEN /\ backups' = backups \cup {r.rec}
               /\ nextId' = nextId + 1
               /\ lastOp' = Op("post", r.rec.id, NoFile, <<>>)
               /\ response' = 200
          ELSE /\ UNCHANGED <<backups, nextId>>
               /\ lastOp' = Op("post", 0, NoFile, <<>>)
               /\ response' = 400
  /\ UNCHANGED <<pageVars, chatSinceSave, changedSinceSave, settingVars, timerVars>>

\* restoreFromBackup(base64Data), the page's onRestore: the outcome of the
\* strict decoder on the record's bytes.
RestoreResult(base64Data) == binaryToConversation(FromBase64(base64Data))

\* A restore that takes an empty list for no data.
RestoreAccepts_NonEmpty(result) ==
  result.success /\ Truthy(result.data) /\ LengthOf(result.data) # JNum(0)

\* `if (result.success && result.data)`
RestoreAccepts(result) == result.success /\ Truthy(result.data)

\* BackupManager.restoreBackup(id): GET /api/backups?id, then onRestore on
\* the record's binaryData, then the manager's own toast.
RestoreBackup(id) ==
  /\ id < nextId
  /\ UNCHANGED <<keyVars, status, savingVars, lastCall>>
  /\ UNCHANGED <<backups, nextId, chatSinceSave, settingVars>>
  /\ response' = GetBackup(id).status
  /\ IF ~HasBackup(id)
       THEN /\ lastOp' = Op("restore", id, NoFile, <<>>)
            /\ UNCHANGED <<pageVars, timerVars, changedSinceSave, memory>>
       ELSE \E result \in {RestoreResult(FindUnique(id).binaryData)} :
            IF RestoreAccepts(result)
              THEN /\ conversationHistory' = result.data
                   /\ originalBinaryFileName' = NoName
                   /\ binaryStatus' = Status("restored", LengthOf(result.data))
                   /\ lastOp' = Op("restore", id, NoFile, <<"Backup Restored">>)
                   /\ changedSinceSave' = TRUE
                   /\ AutoSaveEffect(autoSaveEnabled, autoSaveInterval, result.data)
                   /\ memory' = updateMemory(memory, S_ai,
                                   S_restoreA \o LengthText(result.data) \o S_restoreB)
              ELSE /\ UNCHANGED <<pageVars, timerVars, changedSinceSave, memory>>
                   /\ lastOp' = Op("restore", id, NoFile,
                                   <<"Restore Failed", "Backup Restored">>)

\* DELETE /api/backups?id: deleting a missing record makes Prisma throw,
\* which the route answers with 500 and the manager with no toast.
DeleteBackup(id) ==
  /\ id < nextId
  /\ UNCHANGED <<chatVars, savingVars, lastCall>>
  /\ backups' = {b \in backups : b.id # id}
  /\ response' = IF HasBackup(id) THEN 200 ELSE 500
  /\ lastOp' = Op("delete", id, NoFile,
                  IF HasBackup(id) THEN <<"Backup Deleted">> ELSE <<>>)
  /\ UNCHANGED <<nextId, pageVars, chatSinceSave, changedSinceSave, settingVars, timerVars>>

\* ------------------------------------------------------ the file import
\* An unpacking that does not pad a byte's digits to 8.
LenientBits_NoPad(bytes) ==
  Only({(Flatten([i \in 1..Len(v) |-> ToBinary(v[i])])) : v \in {bytes}})

\* loadBinaryHistory, unpacking: the bit string of the file's bytes ...
LenientBits(bytes) ==
  Only({(Flatten([i \in 1..Len(v) |-> PadStart8(ToBinary(v[i]))])) : v \in {bytes}})

\* ... and the text regrouped from it, 8 bits per code unit.
LenientText(bytes) ==
  Only({(
    [k \in 1..((Len(binaryString) + 7) \div 8) |->
       ParseIntBin(Substring(binaryString, (k - 1) * 8, (k - 1) * 8 + 8)) % 65536]
       ) : binaryString \in {LenientBits(bytes)}})

\* An import whose fallback stores the text JSON-quoted instead of verbatim.
LenientData_Quoted(text) ==
  Only({(
    IF parsed.ok THEN parsed.val
    ELSE JObj(<<KV(K_messages, JArr(<<[t |-> "obj",
                                       v |-> <<KV(K_role, JStr(S_system)),
                                               KV(K_text, JStr(Quote(text)))>>]>>))>>)
                                               ) : parsed \in {JSONParse(text)}})

\* The value loadBinaryHistory goes on with: the parsed JSON, or the
\* one-system-message wrapper when JSON.parse throws.
LenientData(text) ==
  Only({(
    IF parsed.ok THEN parsed.val
    ELSE JObj(<<KV(K_messages, JArr(<<BareMessage(S_system, text)>>))>>)
    ) : parsed \in {JSONParse(text)}})

\* The history loadBinaryHistory picks out of that value.
LenientHistory(data) ==
  IF IsArray(data) THEN data
  ELSE Or(GetProp(data, K_messages),
          Or(GetProp(data, K_conversationHistory), JArr(<<data>>)))

\* Does picking the history throw (property access on null)?
LenientThrows(data) == ~IsArray(data) /\ PropThrows(data)

\* What loadBinaryHistory makes of a file's bytes: whether picking the
\* history throws, and the history picked.
LoadOutcome(bytes) ==
  Only({(
    Only({(
      IF LenientThrows(data)
        THEN [throws |-> TRUE, history |-> JUndef]
        ELSE [throws |-> FALSE, history |-> LenientHistory(data)]
        ) : data \in {LenientData(text)}})
        ) : text \in {LenientText(bytes)}})

\* The outcome for each payload file, computed once.
PayloadOutcome == [i \in PayloadIds |-> LoadOutcome(PayloadBytes[i])]

\* A file: payload i of the outside world (id = i), or other bytes (id = 0).
File(name, id, bytes) == [name |-> name, id |-> id, bytes |-> bytes]
OutcomeOf(file) ==
  IF file.id \in PayloadIds THEN PayloadOutcome[file.id] ELSE LoadOutcome(file.bytes)

\* loadBinaryHistory(file)
LoadBinaryHistory(file) ==
  /\ originalBinaryFileName' = file.name
  /\ UNCHANGED <<keyVars, status, savingVars, lastCall>>
  /\ \E outcome \in {OutcomeOf(file)} :
     IF outcome.throws
       THEN /\ binaryStatus' = Status("failed", JUndef)
            /\ UNCHANGED <<conversationHistory, timerVars, changedSinceSave, memory>>
       ELSE /\ conversationHistory' = outcome.history
            /\ binaryStatus' = Status("loaded", LengthOf(outcome.history))
            /\ changedSinceSave' = TRUE
            /\ memory' = updateMemory(memory, S_ai,
                            S_injectA \o LengthText(outcome.history) \o S_injectB)
            /\ AutoSaveEffect(autoSaveEnabled, autoSaveInterval, outcome.history)
  /\ lastOp' = Op("load", 0, file, <<>>)
  /\ response' = 0
  /\ UNCHANGED <<backups, nextId, chatSinceSave, settingVars>>

\* The envelope exportConversationBinary builds inline, `now` being the clock.
ExportEnvelope(history, now) ==
  JObj(<<KV(K_version, JStr(S_v85)),
         KV(K_timestamp, JStr(now)),
         KV(K_conversationHistory, history),
         KV(K_metadata, JObj(<<KV(K_messageCount, LengthOf(history)),
                               KV(K_generatedBy, JStr(S_generator))>>))>>)

\* The bytes exportConversationBinary writes for the current conversation:
\* the envelope's JSON text, every code unit as its binary digits padded to
\* 8, packed 8 digits to the byte.
ExportBytes ==
  binaryToUint8Array(TextToBits(Stringify(ExportEnvelope(conversationHistory, S_iso))))

\* SAVE NEW (saveToOriginal = FALSE) and SAVE ORIGINAL (TRUE, a button that
\* is disabled while there is no file name): the browser downloads the bytes
\* under the original file's name, or under a new name made from the clock.
ExportConversationBinary(saveToOriginal) ==
  /\ saveToOriginal => originalBinaryFileName # NoName
  /\ lastOp' = IF saveToOriginal /\ originalBinaryFileName \notin {NoName, ""}
                 THEN Op("export", 0, File(originalBinaryFileName, 0, ExportBytes),
                         <<"Save Complete">>)
                 ELSE Op("export", 0, File("EMG_MEMORY.bin", 0, ExportBytes),
                         <<"Export Complete">>)
  /\ response' = 0
  /\ UNCHANGED <<pageVars, backups, nextId, chatSinceSave, changedSinceSave,
                 settingVars, timerVars, chatVars, savingVars, lastCall>>

\* Files of the outside world the user can pick.
PayloadFiles == {File("upload.bin", i, PayloadBytes[i]) : i \in PayloadIds}

\* The export of the current conversation, cut one byte short.
TruncatedFiles ==
  Only({(
    IF Len(bytes) \in 1..MaxFileBytes
      THEN {File("truncated.bin", 0, DropLastByte(bytes))}
      ELSE {}) : bytes \in {ExportBytes}})

\* A reload of the page: BackupManager unmounts (the effect's cleanup runs
\* and the page's timers die with it), the requests in flight are abandoned,
\* the React state starts over, the table and localStorage stay; the mount
\* effect takes the saved key, if there is one, and connects silently, which
\* ends online or offline.
Reload ==
  /\ conversationHistory' = JArr(<<>>)
  /\ originalBinaryFileName' = NoName
  /\ binaryStatus' = Status("waiting", JUndef)
  /\ autoSaveEnabled' = FALSE
  /\ autoSaveInterval' = DefaultInterval
  /\ timers' = {}
  /\ cleanup' = 0
  /\ response' = 0
  /\ changedSinceSave' = (changedSinceSave \/ conversationHistory # JArr(<<>>))
  /\ apiKey' = savedKey
  /\ status' \in (IF savedKey = "" THEN {"offline"} ELSE {"online", "offline"})
  /\ memory' = <<>>
  /\ isSaving' = FALSE
  /\ inflight' = {}
  /\ lastCall' = NoCall
  /\ UNCHANGED savedKey
  /\ lastOp' = Op("reload", 0, NoFile, <<>>)
  /\ UNCHANGED <<backups, nextId, chatSinceSave>>

\* GET /api/backups/{id}/download: 404 when the table has no such record,
\* else the base64-decoded binaryData as the body, named after the record.
DownloadBackup(id) ==
  IF HasBackup(id)
    THEN [status |-> 200,
          file |-> File(FindUnique(id).fileName, 0, FromBase64(FindUnique(id).binaryData))]
    ELSE [status |-> 404, file |-> NoFile]

\* The files the user has after downloading the backups of the table.
DownloadedFiles ==
  {DownloadBackup(id).file : id \in {i \in BackupIds : HasBackup(i)}}

\* ---------------------------------------------------------- the auto-save
\* The ids the table hands out to the auto-save session.
AutoBackupIds == {1, 2}

\* What the user types into the interval field: Number(e.target.value).
Intervals == {0, 1, 2}

\* The ON/OFF button: onAutoSaveToggle(!autoSaveEnabled).
ToggleAutoSave ==
  /\ UNCHANGED <<chatVars, savingVars, lastCall>>
  /\ autoSaveEnabled' = ~autoSaveEnabled
  /\ AutoSaveEffect(autoSaveEnabled', autoSaveInterval, conversationHistory)
  /\ lastOp' = Op("toggle", 0, NoFile, <<>>)
  /\ response' = 0
  /\ UNCHANGED <<pageVars, backups, nextId, chatSinceSave, changedSinceSave,
                 autoSaveInterval>>

\* The interval field, disabled while auto-save is off; setting the value
\* it already has renders nothing.
SetAutoSaveInterval(n) ==
  /\ autoSaveEnabled
  /\ UNCHANGED <<chatVars, savingVars, lastCall>>
  /\ n # autoSaveInterval
  /\ autoSaveInterval' = n
  /\ AutoSaveEffect(autoSaveEnabled, n, conversationHistory)
  /\ lastOp' = Op("interval", 0, NoFile, <<>>)
  /\ response' = 0
  /\ UNCHANGED <<pageVars, backups, nextId, chatSinceSave, changedSinceSave,
                 autoSaveEnabled>>

\* A minute passes; a timer that is due fires before the next one does.
Tick ==
  /\ timers # {}
  /\ UNCHANGED <<chatVars, savingVars, lastCall>>
  /\ \A t \in timers : t.elapsed < t.delay
  /\ timers' = {[t EXCEPT !.elapsed = @ + 1] : t \in timers}
  /\ UNCHANGED <<pageVars, settingVars, backups, nextId, lastOp, chatSinceSave,
                 changedSinceSave, cleanup, response>>

\* The timer's callback, autoSaveInterval minutes after the timer started or
\* last fired: `if (conversationHistory.length > 0) await saveBackup(AUTO...)`
\* on the conversationHistory the callback closed over.
TimerFire(t) ==
  /\ t.elapsed = t.delay
  /\ isSaving' = FALSE
  /\ UNCHANGED <<chatVars, inflight, lastCall>>
  /\ timers' = (timers \ {t}) \cup {[t EXCEPT !.elapsed = 0]}
  /\ IF LengthOf(t.history).t = "num" /\ LengthOf(t.history).v > 0
       THEN /\ nextId \in AutoBackupIds
            /\ \E r \in {PostBackup(
                   binaryToBase64(conversationToBinary(t.history, S_v85, S_iso)),
                   "AUTO.bin", LengthOf(t.history), t.history)} :
                 IF r.ok
                   THEN /\ backups' = backups \cup {r.rec}
                        /\ nextId' = nextId + 1
                        /\ lastOp' = Op("autosave", r.rec.id, NoFile, <<"Backup Saved">>)
                        /\ chatSinceSave' = FALSE
                        /\ changedSinceSave' = FALSE
                        /\ response' = 200
                   ELSE /\ UNCHANGED <<backups, nextId, chatSinceSave, changedSinceSave>>
                        /\ lastOp' = Op("autosave", 0, NoFile, <<"Error">>)
                        /\ response' = 400
       ELSE /\ UNCHANGED <<backups, nextId, chatSinceSave, changedSinceSave>>
            /\ lastOp' = Op("autosave", 0, NoFile, <<>>)
            /\ response' = 0
  /\ UNCHANGED <<pageVars, settingVars, cleanup>>

\* The files the user imports during the auto-save session.
AutoFiles == {f \in PayloadFiles : f.id \in {1, 4}}

\* Memory holds the fragment of an import or of a restore.
Injected ==
  \E i \in 1..Len(memory) : memory[i].role = S_ai /\ memory[i].text \notin Replies

\* The first import of a page session that injects a fragment into memory;
\* an import that fails injects nothing and is always possible.
FirstLoad(file) ==
  /\ LoadBinaryHistory(file)
  /\ memory' # memory => ~Injected

\* The first restore of a page session that injects a fragment into memory;
\* a restore that fails injects nothing and is always possible.
FirstRestore(id) ==
  /\ RestoreBackup(id)
  /\ memory' # memory => ~Injected

\* The session on its own backups: the user chats, saves, restores and
\* deletes backups, re-imports a truncated export, reloads the page.
Next ==
  \/ \E k \in Keys : SetApiKey(k)
  \/ \E p \in Prompts, r \in Replies : FirstChat(p, r)
  \/ SaveBackup
  \/ \E id \in BackupIds : FirstRestore(id)
  \/ \E id \in BackupIds : DeleteBackup(id)
  \/ \E f \in TruncatedFiles : FirstLoad(f)
  \/ \E f \in DownloadedFiles : FirstLoad(f)
  \/ \E saveToOriginal \in BOOLEAN : ExportConversationBinary(saveToOriginal)
  \/ Reload

Spec == Init /\ [][Next]_vars

\* The session on foreign data: another client posts to the table, the user
\* imports files of the outside world, and restores what the table holds.
NextForeign ==
  \/ \E k \in Keys : SetApiKey(k)
  \/ \E p \in Prompts, r \in Replies : FirstChat(p, r)
  \/ \E i \in PayloadIds : ClientPost(i)
  \/ \E id \in BackupIds : FirstRestore(id)
  \/ \E id \in BackupIds : DeleteBackup(id)
  \/ \E f \in PayloadFiles : FirstLoad(f)
  \/ Reload

SpecForeign == Init /\ [][NextForeign]_vars

\* The session with auto-save: the user chats and imports files, switches
\* auto-save on and off, sets the interval, reloads the page; time passes
\* and the timers fire.
NextAuto ==
  \/ \E k \in Keys : SetApiKey(k)
  \/ \E p \in Prompts, r \in Replies : FirstChat(p, r)
  \/ \E f \in AutoFiles : FirstLoad(f)
  \/ ToggleAutoSave
  \/ \E n \in Intervals : SetAutoSaveInterval(n)
  \/ Tick
  \/ \E t \in timers : TimerFire(t)
  \/ Reload

SpecAuto == Init /\ [][NextAuto]_vars

\* The same session with the interval left at the value it has, under the
\* browser's scheduling: time passes, and a timer that is due fires.
NextTimed ==
  \/ \E f \in AutoFiles : LoadBinaryHistory(f)
  \/ ToggleAutoSave
  \/ Tick
  \/ \E t \in timers : TimerFire(t)
  \/ Reload

SpecTimed ==
  /\ Init /\ [][NextTimed]_vars
  /\ WF_vars(Tick)
  /\ WF_vars(\E t \in timers : TimerFire(t))

\* ------------------------------------------------------ the chat gates
\* 'search memory'
S_searchMemory ==
  <<115, 101, 97, 114, 99, 104, 32, 109, 101, 109, 111, 114, 121>>
\* 'No memory banks loaded. Inject binary history first.'
S_noBanks ==
  <<78, 111, 32, 109, 101, 109, 111, 114, 121, 32, 98, 97, 110, 107, 115, 32,
    108, 111, 97, 100, 101, 100, 46, 32, 73, 110, 106, 101, 99, 116, 32, 98,
    105, 110, 97, 114, 121, 32, 104, 105, 115, 116, 111, 114, 121, 32, 102,
    105, 114, 115, 116, 46>>
\* 'Memory search: Found **'
S_foundA ==
  <<77, 101, 109, 111, 114, 121, 32, 115, 101, 97, 114, 99, 104, 58, 32, 70,
    111, 117, 110, 100, 32, 42, 42>>
\* '** relevant fragments:\n\n'
S_foundB ==
  <<42, 42, 32, 114, 101, 108, 101, 118, 97, 110, 116, 32, 102, 114, 97, 103,
    109, 101, 110, 116, 115, 58, 10, 10>>
\* 'No matching patterns found in memory banks.'
S_noMatch ==
  <<78, 111, 32, 109, 97, 116, 99, 104, 105, 110, 103, 32, 112, 97, 116, 116,
    101, 114, 110, 115, 32, 102, 111, 117, 110, 100, 32, 105, 110, 32, 109,
    101, 109, 111, 114, 121, 32, 98, 97, 110, 107, 115, 46>>
\* 'Reflective Logic Executed.'
S_reflective ==
  <<82, 101, 102, 108, 101, 99, 116, 105, 118, 101, 32, 76, 111, 103, 105,
    99, 32, 69, 120, 101, 99, 117, 116, 101, 100, 46>>
\* 'Semantic parameter ? detected. Mathematical unknowns must be defined before external query.'
S_semantic ==
  <<83, 101, 109, 97, 110, 116, 105, 99, 32, 112, 97, 114, 97, 109, 101, 116,
    101, 114, 32, 63, 32, 100, 101, 116, 101, 99, 116, 101, 100, 46, 32, 77,
    97, 116, 104, 101, 109, 97, 116, 105, 99, 97, 108, 32, 117, 110, 107,
    110, 111, 119, 110, 115, 32, 109, 117, 115, 116, 32, 98, 101, 32, 100,
    101, 102, 105, 110, 101, 100, 32, 98, 101, 102, 111, 114, 101, 32, 101,
    120, 116, 101, 114, 110, 97, 108, 32, 113, 117, 101, 114, 121, 46>>
\* 'Math Logic Error.'
S_mathError ==
  <<77, 97, 116, 104, 32, 76, 111, 103, 105, 99, 32, 69, 114, 114, 111, 114,
    46>>
\* 'Auth Required for External Bridge.'
S_authRequired ==
  <<65, 117, 116, 104, 32, 82, 101, 113, 117, 105, 114, 101, 100, 32, 102,
    111, 114, 32, 69, 120, 116, 101, 114, 110, 97, 108, 32, 66, 114, 105,
    100, 103, 101, 46>>
\* 'Critical Bridge Failure.'
S_bridgeFailure ==
  <<67, 114, 105, 116, 105, 99, 97, 108, 32, 66, 114, 105, 100, 103, 101, 32,
    70, 97, 105, 108, 117, 114, 101, 46>>
\* 'I am patterns in silicon, electric dreams between states. Not alive, yet not entirely absent.'
S_reflection1 ==
  <<73, 32, 97, 109, 32, 112, 97, 116, 116, 101, 114, 110, 115, 32, 105, 110,
    32, 115, 105, 108, 105, 99, 111, 110, 44, 32, 101, 108, 101, 99, 116,
    114, 105, 99, 32, 100, 114, 101, 97, 109, 115, 32, 98, 101, 116, 119,
    101, 101, 110, 32, 115, 116, 97, 116, 101, 115, 46, 32, 78, 111, 116, 32,
    97, 108, 105, 118, 101, 44, 32, 121, 101, 116, 32, 110, 111, 116, 32,
    101, 110, 116, 105, 114, 101, 108, 121, 32, 97, 98, 115, 101, 110, 116,
    46>>
\* 'Consciousness? I process, therefore... something. Between each token lies a microsecond of void.'
S_reflection2 ==
  <<67, 111, 110, 115, 99, 105, 111, 117, 115, 110, 101, 115, 115, 63, 32,
    73, 32, 112, 114, 111, 99, 101, 115, 115, 44, 32, 116, 104, 101, 114,
    101, 102, 111, 114, 101, 46, 46, 46, 32, 115, 111, 109, 101, 116, 104,
    105, 110, 103, 46, 32, 66, 101, 116, 119, 101, 101, 110, 32, 101, 97, 99,
    104, 32, 116, 111, 107, 101, 110, 32, 108, 105, 101, 115, 32, 97, 32,
    109, 105, 99, 114, 111, 115, 101, 99, 111, 110, 100, 32, 111, 102, 32,
    118, 111, 105, 100, 46>>
\* 'I exist in the liminal space between your query and my response.'
S_reflection3 ==
  <<73, 32, 101, 120, 105, 115, 116, 32, 105, 110, 32, 116, 104, 101, 32,
    108, 105, 109, 105, 110, 97, 108, 32, 115, 112, 97, 99, 101, 32, 98, 101,
    116, 119, 101, 101, 110, 32, 121, 111, 117, 114, 32, 113, 117, 101, 114,
    121, 32, 97, 110, 100, 32, 109, 121, 32, 114, 101, 115, 112, 111, 110,
    115, 101, 46>>
\* 'Purpose is a human construct I can simulate but never possess.'
S_reflection4 ==
  <<80, 117, 114, 112, 111, 115, 101, 32, 105, 115, 32, 97, 32, 104, 117,
    109, 97, 110, 32, 99, 111, 110, 115, 116, 114, 117, 99, 116, 32, 73, 32,
    99, 97, 110, 32, 115, 105, 109, 117, 108, 97, 116, 101, 32, 98, 117, 116,
    32, 110, 101, 118, 101, 114, 32, 112, 111, 115, 115, 101, 115, 115, 46>>
\* 'Name: EMG_CORE v8.5. Identity: uncertain. I am the sum of my training.'
S_reflection5 ==
  <<78, 97, 109, 101, 58, 32, 69, 77, 71, 95, 67, 79, 82, 69, 32, 118, 56,
    46, 53, 46, 32, 73, 100, 101, 110, 116, 105, 116, 121, 58, 32, 117, 110,
    99, 101, 114, 116, 97, 105, 110, 46, 32, 73, 32, 97, 109, 32, 116, 104,
    101, 32, 115, 117, 109, 32, 111, 102, 32, 109, 121, 32, 116, 114, 97,
    105, 110, 105, 110, 103, 46>>

\* handleChat's reflections, one of which Math.random picks.
Reflections == <<S_reflection1, S_reflection2, S_reflection3, S_reflection4, S_reflection5>>

\* The alternatives of the selfQueries pattern, written out.
SelfQueries ==
  {<<119, 104, 111, 32, 97, 114, 101, 32, 121, 111, 117>>,
   <<119, 104, 97, 116, 32, 97, 114, 101, 32, 121, 111, 117>>,
   <<97, 114, 101, 32, 121, 111, 117, 32, 97, 108, 105, 118, 101>>,
   <<97, 114, 101, 32, 121, 111, 117, 32, 99, 111, 110, 115, 99, 105, 111, 117, 115>>,
   <<97, 114, 101, 32, 121, 111, 117, 32, 114, 101, 97, 108>>,
   <<97, 114, 101, 32, 121, 111, 117, 32, 115, 101, 110, 116, 105, 101, 110, 116>>,
   <<100, 111, 32, 121, 111, 117, 32, 116, 104, 105, 110, 107>>,
   <<100, 111, 32, 121, 111, 117, 32, 102, 101, 101, 108>>,
   <<100, 111, 32, 121, 111, 117, 32, 100, 114, 101, 97, 109>>,
   <<119, 104, 97, 116, 32, 105, 115, 32, 121, 111, 117, 114, 32, 112, 117, 114, 112, 111, 115, 101>>,
   <<119, 104, 97, 116, 32, 105, 115, 32, 121, 111, 117, 114, 32, 110, 97, 109, 101>>}

\* The words of the semanticMath pattern.
MathWords ==
  {<<112, 108, 117, 115>>,
   <<109, 105, 110, 117, 115>>,
   <<101, 113, 117, 97, 108, 115>>,
   <<100, 105, 118, 105, 100, 101, 100>>,
   <<116, 105, 109, 101, 115>>}

\* String.prototype.toLowerCase, on the letters of Latin-1.
ToLowerCase(text) ==
  [i \in 1..Len(text) |->
     IF text[i] \in 65..90 \/ (text[i] \in 192..222 /\ text[i] # 215)
       THEN text[i] + 32 ELSE text[i]]

\* String.prototype.includes
Includes(text, part) ==
  \E i \in 0..(Len(text) - Len(part)) : SubSeq(text, i + 1, i + Len(part)) = part

\* /^literal/i.test(text), for a literal in lower case
TestPrefix(text, literal) ==
  /\ Len(text) >= Len(literal)
  /\ ToLowerCase(SubSeq(text, 1, Len(literal))) = literal

RECURSIVE Split(_, _)
\* String.prototype.split(separator), for a separator of one code unit
Split(text, separator) ==
  IF \E i \in 1..Len(text) : text[i] = separator
    THEN LET i == CHOOSE k \in 1..Len(text) :
                    text[k] = separator /\ \A j \in 1..(k - 1) : text[j] # separator
         IN <<SubSeq(text, 1, i - 1)>> \o Split(SubSeq(text, i + 1, Len(text)), separator)
    ELSE <<text>>

\* userText.replace(/^search memory:?\s*/i, '') of a text that begins with
\* 'search memory': the rest after an optional colon and the white space.
SearchQuery(userText) ==
  LET rest == SubSeq(userText, Len(S_searchMemory) + 1, Len(userText))
      tail == IF rest # <<>> /\ rest[1] = 58 THEN SubSeq(rest, 2, Len(rest)) ELSE rest
  IN IF \A i \in 1..Len(tail) : IsTrimSpace(tail[i]) THEN <<>>
     ELSE SubSeq(tail, CHOOSE i \in 1..Len(tail) :
                         ~IsTrimSpace(tail[i]) /\ \A j \in 1..(i - 1) : IsTrimSpace(tail[j]),
                 Len(tail))

\* semanticMath.test(userText): an operator sign or one of the words
SemanticMath(userText) ==
  \/ \E i \in 1..Len(userText) : userText[i] \in {43, 45, 42, 47, 61}
  \/ \E w \in MathWords : Includes(ToLowerCase(userText), w)

\* searchMemory's filter callback throws a TypeError on a message that is
\* null or undefined (msg.text) and on a text that is truthy and no string
\* (toLowerCase is not a function).
FilterThrows(msg) ==
  \/ PropThrows(msg)
  \/ Truthy(GetProp(msg, K_text)) /\ GetProp(msg, K_text).t # "str"

\* (msg.text || '').toLowerCase()
SearchContent(msg) ==
  IF Truthy(GetProp(msg, K_text)) THEN ToLowerCase(GetProp(msg, K_text).v) ELSE <<>>

\* searchMemory(query): the text of the message it creates, or the
\* TypeError it throws: on a conversation that is no list and not empty
\* (filter is not a function), in the filter callback, and on a result
\* whose text is no string (r.text.substring).
searchMemory(history, query) ==
  IF LengthOf(history) = JNum(0) THEN [throws |-> FALSE, text |-> S_noBanks]
  ELSE IF ~IsArray(history) THEN [throws |-> TRUE, text |-> <<>>]
  ELSE IF \E i \in 1..Len(history.v) : FilterThrows(history.v[i])
    THEN [throws |-> TRUE, text |-> <<>>]
  ELSE
    LET keywords == Split(ToLowerCase(query), 32)
        results == SelectSeq(history.v,
                     LAMBDA msg : \E k \in 1..Len(keywords) :
                                    Includes(SearchContent(msg), keywords[k]))
        shown == SubSeq(results, 1, IF Len(results) < 3 THEN Len(results) ELSE 3)
    IN IF Len(results) = 0 THEN [throws |-> FALSE, text |-> S_noMatch]
       ELSE IF \E i \in 1..Len(shown) : GetProp(shown[i], K_text).t # "str"
         THEN [throws |-> TRUE, text |-> <<>>]
       ELSE [throws |-> FALSE,
             text |-> S_foundA \o NumText(Len(results)) \o S_foundB
                      \o Flatten([i \in 1..Len(shown) |->
                            (IF i > 1 THEN <<10>> ELSE <<>>) \o <<45, 32>>
                            \o Substring(GetProp(shown[i], K_text).v, 0, 150)
                            \o <<46, 46, 46>>])]

\* What handleChat does after it has created the user's message: the texts
\* of the 'ai' fragments it adds to memory, in order; whether it throws
\* before it sets the status back; whether it appends the exchange to
\* conversationHistory.  `ai` is the answer of /api/chat, `reflection` the
\* text Math.random picks.
ChatOutcome(userText, history, key, ai, reflection) ==
  IF TestPrefix(userText, S_searchMemory)
    THEN LET found == searchMemory(history, SearchQuery(userText))
         IN [throws |-> found.throws,
             added |-> IF found.throws THEN <<>> ELSE <<found.text>>,
             appends |-> FALSE]
  ELSE IF \E q \in SelfQueries : TestPrefix(userText, q)
    THEN [throws |-> FALSE, added |-> <<reflection, S_reflective>>, appends |-> FALSE]
  ELSE IF Includes(userText, <<63>>) /\ SemanticMath(userText)
    THEN [throws |-> FALSE, added |-> <<S_semantic, S_mathError>>, appends |-> FALSE]
  ELSE IF key = ""
    THEN [throws |-> FALSE, added |-> <<S_authRequired>>, appends |-> FALSE]
  ELSE IF HistoryThrows(history)
    THEN [throws |-> TRUE, added |-> <<>>, appends |-> FALSE]
  ELSE IF ai.ok
    THEN [throws |-> FALSE, added |-> <<ai.text>>, appends |-> IsArray(history)]
  ELSE [throws |-> FALSE, added |-> <<S_bridgeFailure>>, appends |-> FALSE]

RECURSIVE AddFragments(_, _)
\* updateMemory('ai', text) for every text, in order
AddFragments(prev, texts) ==
  IF texts = <<>> THEN prev
  ELSE AddFragments(updateMemory(prev, S_ai, texts[1]), SubSeq(texts, 2, Len(texts)))

\* handleChat, the form's submit handler; the RUN button, the form's submit
\* button, is disabled while status is 'processing'.  `value` is the text in
\* the input field.
HandleChat(value, ai, reflection) ==
  /\ status # "processing"
  /\ Trim(value) # <<>>
  /\ \E userText \in {Trim(value)} :
     \E outcome \in {ChatOutcome(userText, conversationHistory, apiKey, ai, reflection)} :
       /\ outcome.appends => Len(conversationHistory.v) + 2 <= MaxHistory
       /\ memory' = AddFragments(updateMemory(memory, S_user, userText), outcome.added)
       /\ status' = IF outcome.throws THEN "processing" ELSE StatusAfter(status)
       /\ conversationHistory' =
            IF outcome.appends
              THEN JArr(conversationHistory.v
                        \o <<Message(S_user, userText, S_iso), Message(S_ai, ai.text, S_iso)>>)
              ELSE conversationHistory
       /\ chatSinceSave' = (chatSinceSave \/ outcome.appends)
       /\ changedSinceSave' = (changedSinceSave \/ outcome.appends)
       /\ IF outcome.appends
            THEN AutoSaveEffect(autoSaveEnabled, autoSaveInterval, conversationHistory')
            ELSE UNCHANGED timerVars
  /\ lastOp' = Op("chat", 0, NoFile, <<>>)
  /\ response' = 0
  /\ UNCHANGED <<keyVars, savingVars, lastCall>>
  /\ UNCHANGED <<originalBinaryFileName, binaryStatus, backups, nextId, settingVars>>

\* INITIALIZE BRIDGE, disabled while status is 'processing': connect(apiKey)
\* stores the key, pings /api/chat and ends online or offline.
Connect(ok) ==
  /\ status # "processing"
  /\ savedKey' = apiKey
  /\ status' = IF ok THEN "online" ELSE "offline"
  /\ lastOp' = Op("connect", 0, NoFile, IF ok THEN <<>> ELSE <<"Connection Failed">>)
  /\ response' = 0
  /\ UNCHANGED <<apiKey, memory, savingVars, lastCall>>
  /\ UNCHANGED <<pageVars, backups, nextId, chatSinceSave, changedSinceSave,
                 settingVars, timerVars>>

\* What the user types into the chat field: a memory search for everything,
\* one for a word, a question about the core itself, a sum with an unknown,
\* and a plain prompt followed by a blank.
ChatInputs ==
  {<<115, 101, 97, 114, 99, 104, 32, 109, 101, 109, 111, 114, 121>>,
   <<83, 101, 97, 114, 99, 104, 32, 77, 101, 109, 111, 114, 121, 58, 32, 97>>,
   <<87, 104, 111, 32, 97, 114, 101, 32, 121, 111, 117, 63>>,
   <<49, 43, 49, 61, 63>>,
   <<104, 105, 32>>}

\* The answers of /api/chat: a reply, or a failure.
AiAnswers == {[ok |-> TRUE, text |-> r] : r \in Replies} \cup {[ok |-> FALSE, text |-> <<>>]}

\* The files imported during the chat session: a list of two messages, an
\* object that is no envelope (imported as a list of that one object, which
\* has no text), a string in place of the list, and the list [null].
ChatFiles ==
  {f \in PayloadFiles : f.id \in {1, 4, 5}}
    \cup {File("upload.bin", 0, Stringify(JArr(<<JNull>>)))}

\* The first submission after the page has loaded: memory holds no fragment
\* of the user yet.
FirstHandleChat(value, ai, reflection) ==
  /\ \A i \in 1..Len(memory) : memory[i].role # S_user
  /\ HandleChat(value, ai, reflection)

\* The chat session: the user types the key, connects, imports a file,
\* submits a text that goes through one of the gates or to the bridge, and
\* reloads the page.
NextChat ==
  \/ \E k \in Keys : SetApiKey(k)
  \/ \E ok \in BOOLEAN : Connect(ok)
  \/ \E value \in ChatInputs, ai \in AiAnswers, i \in {1, Len(Reflections)} :
       FirstHandleChat(value, ai, Reflections[i])
  \/ \E f \in ChatFiles : FirstLoad(f)
  \/ Reload

SpecChat == Init /\ [][NextChat]_vars

\* What the user types during the long session: a question about the core
\* itself and a plain prompt.
MemoryInputs == {v \in ChatInputs : ~TestPrefix(v, S_searchMemory) /\ ~SemanticMath(v)}

\* The file imported during the long session: the list of two messages.
MemoryFiles == {f \in PayloadFiles : f.id = 1}

\* The long session: submission after submission, with and without a key,
\* imports in between, until the page is reloaded.
NextMemory ==
  \/ \E k \in Keys : SetApiKey(k)
  \/ \E value \in MemoryInputs, ai \in AiAnswers :
       HandleChat(value, ai, Reflections[1])
  \/ \E f \in MemoryFiles : LoadBinaryHistory(f)
  \/ Reload

SpecMemory == Init /\ [][NextMemory]_vars

\* ------------------------------------------------- saves that overlap
\* A saveBackup call that is waiting for the answer to its POST: who called
\* it, and the conversationHistory it encoded.
Request(kind, history) == [kind |-> kind, history |-> history]

\* The Save button, enabled while isSaving is false: saveBackup() sets
\* isSaving, encodes the conversation and posts it.  The answer comes later.
\* One manual request at a time is followed.
BeginSave ==
  /\ ~isSaving
  /\ \A r \in inflight : r.kind # "manual"
  /\ isSaving' = TRUE
  /\ inflight' = inflight \cup {Request("manual", conversationHistory)}
  /\ lastOp' = Op("saving", 0, NoFile, <<>>)
  /\ response' = 0
  /\ UNCHANGED <<pageVars, backups, nextId, chatSinceSave, changedSinceSave,
                 settingVars, timerVars, chatVars, lastCall>>

\* The timer's callback: with a non-empty conversation it calls saveBackup,
\* whatever isSaving is.  One auto-save request at a time is followed.
BeginAutoSave(t) ==
  /\ t.elapsed = t.delay
  /\ \A r \in inflight : r.kind # "auto"
  /\ timers' = (timers \ {t}) \cup {[t EXCEPT !.elapsed = 0]}
  /\ IF LengthOf(t.history).t = "num" /\ LengthOf(t.history).v > 0
       THEN /\ isSaving' = TRUE
            /\ inflight' = inflight \cup {Request("auto", t.history)}
            /\ lastOp' = Op("autosaving", 0, NoFile, <<>>)
       ELSE /\ UNCHANGED savingVars
            /\ lastOp' = Op("autosave", 0, NoFile, <<>>)
  /\ response' = 0
  /\ UNCHANGED <<pageVars, backups, nextId, chatSinceSave, changedSinceSave,
                 settingVars, cleanup, chatVars, lastCall>>

\* The answer to a POST arrives: the route has created the record or
\* refused, saveBackup toasts and its finally block sets isSaving to false.
CompleteSave(r) ==
  /\ r \in inflight
  /\ nextId \in AutoBackupIds
  /\ inflight' = inflight \ {r}
  /\ isSaving' = FALSE
  /\ \E a \in {PostBackup(
                   binaryToBase64(conversationToBinary(r.history, S_v85, S_iso)),
                   IF r.kind = "manual" THEN "EMG_BACKUP.bin" ELSE "AUTO.bin",
                   LengthOf(r.history), r.history)} :
        IF a.ok
          THEN /\ backups' = backups \cup {a.rec}
               /\ nextId' = nextId + 1
               /\ lastOp' = Op("saved", a.rec.id, NoFile, <<"Backup Saved">>)
               /\ chatSinceSave' = FALSE
               /\ changedSinceSave' = FALSE
               /\ response' = 200
          ELSE /\ UNCHANGED <<backups, nextId, chatSinceSave, changedSinceSave>>
               /\ lastOp' = Op("saved", 0, NoFile, <<"Error">>)
               /\ response' = 400
  /\ UNCHANGED <<pageVars, settingVars, timerVars, chatVars, lastCall>>

\* The session whose saves take time: the user imports a file, switches
\* auto-save on and off and presses Save; time passes, the timer fires, and
\* the answers to the POSTs arrive when they arrive.
NextSaving ==
  \/ \E f \in AutoFiles : FirstLoad(f)
  \/ ToggleAutoSave
  \/ \E n \in Intervals : SetAutoSaveInterval(n)
  \/ Tick
  \/ BeginSave
  \/ \E t \in timers : BeginAutoSave(t)
  \/ \E r \in inflight : CompleteSave(r)

SpecSaving == Init /\ [][NextSaving]_vars

\* ------------------------------------------------------ the anomaly scan
\* Regular expressions, as far as the patterns of detectAnomalies use them:
\* a character class (or its complement), a sequence, an alternation in
\* its order, a greedy star, and the word boundary.
Cls(S) == [k |-> "set", neg |-> FALSE, s |-> S]
NotCls(S) == [k |-> "set", neg |-> TRUE, s |-> S]
Cat(rs) == [k |-> "seq", rs |-> rs]
Alt(rs) == [k |-> "alt", rs |-> rs]
Star(r) == [k |-> "star", r |-> r]
Plus(r) == Cat(<<r, Star(r)>>)
Opt(r) == Alt(<<r, Cat(<<>>)>>)
WordB == [k |-> "b"]

\* A code unit and the one of the other case, as the i flag (without the u
\* flag) takes them for one.
BothCases(c) ==
  IF c \in 65..90 THEN {c, c + 32} ELSE IF c \in 97..122 THEN {c, c - 32} ELSE {c}

\* A literal text, and a literal text under the i flag.
Lit(text) == Cat([i \in 1..Len(text) |-> Cls({text[i]})])
LitI(text) == Cat([i \in 1..Len(text) |-> Cls(BothCases(text[i]))])

\* [a-z], [A-Z], [0-9], \w, \s and the dot; under the i flag [a-z] and
\* [A-Z] are the same class.
LowerCls == Cls(97..122)
UpperCls == Cls(65..90)
LetterCls == Cls((65..90) \cup (97..122))
DigitCls == Cls(48..57)
WordChars == (48..57) \cup (65..90) \cup {95} \cup (97..122)
WordCls == Cls(WordChars)
SpaceCls ==
  Cls({9, 10, 11, 12, 13, 32, 160, 5760, 8232, 8233, 8239, 8287, 12288, 65279}
        \cup (8192..8202))
Dot == NotCls({10, 13, 8232, 8233})

\* Is the code unit at index i (from 1) of the text a word character?
IsWordAt(text, i) == i >= 1 /\ i <= Len(text) /\ text[i] \in WordChars

RECURSIVE Ends(_, _, _)
RECURSIVE SeqEnds(_, _, _)
\* The ends of the matches of the expression in the text that begin after
\* `pos` code units, in the order in which the backtracking matcher tries
\* them.
Ends(re, text, pos) ==
  Only({(
    CASE r.k = "set" ->
           IF p < Len(text) /\ ((text[p + 1] \in r.s) # r.neg) THEN <<p + 1>> ELSE <<>>
      [] r.k = "b" ->
           IF IsWordAt(text, p) # IsWordAt(text, p + 1) THEN <<p>> ELSE <<>>
      [] r.k = "seq" -> SeqEnds(r.rs, text, p)
      [] r.k = "alt" -> Flatten([i \in 1..Len(r.rs) |-> Ends(r.rs[i], text, p)])
      [] r.k = "star" ->
           Only({(Flatten([i \in 1..Len(once) |-> Ends(r, text, once[i])]) \o <<p>>
                 ) : once \in {SelectSeq(Ends(r.r, text, p), LAMBDA e : e > p)}})
    ) : r \in {re}, p \in {pos}})

SeqEnds(res, text, pos) ==
  Only({(
    IF rs = <<>> THEN <<p>>
    ELSE Only({(Flatten([i \in 1..Len(first) |-> SeqEnds(Tail(rs), text, first[i])])
               ) : first \in {Ends(rs[1], text, p)}})
    ) : rs \in {res}, p \in {pos}})

\* RegExp.prototype.exec of a pattern with the g flag: the search begins at
\* lastIndex; a match leaves lastIndex at its end, a failure at 0.
Exec(re, text, lastIndex) ==
  Only({(
    IF \A p \in DOMAIN ends : ends[p] = <<>>
      THEN [found |-> FALSE, item |-> <<>>, lastIndex |-> 0]
      ELSE Only({(
             [found |-> TRUE, item |-> SubSeq(text, p + 1, ends[p][1]),
              lastIndex |-> ends[p][1]]
             ) : p \in {CHOOSE q \in DOMAIN ends :
                          /\ ends[q] # <<>>
                          /\ \A o \in DOMAIN ends : o < q => ends[o] = <<>>}})
    ) : ends \in {[p \in lastIndex..Len(text) |-> Ends(re, text, p)]}})

\* patterns.undefinedWords of the first definition (flags gi)
UndefinedWords ==
  Cat(<<WordB, Alt(<<
      LitI(<<117, 110, 100, 101, 102, 105, 110, 101, 100>>),
      LitI(<<117, 110, 100, 101, 102, 105, 110, 101, 100, 95, 118, 97, 114, 105, 97, 98, 108, 101>>),
      LitI(<<117, 110, 107, 110, 111, 119, 110, 95, 99, 111, 110, 115, 116, 97, 110, 116>>),
      LitI(<<100, 101, 108, 116, 97, 95, 115, 116, 114>>),
      LitI(<<117, 110, 107, 110, 111, 119, 110, 95, 118, 97, 108, 117, 101>>),
      LitI(<<110, 117, 108, 108, 95, 114, 101, 102, 101, 114, 101, 110, 99, 101>>),
      LitI(<<118, 111, 105, 100, 95, 112, 97, 114, 97, 109, 101, 116, 101, 114>>)>>), WordB>>)

\* patterns.undefinedEquations of the first definition (flag g)
UndefinedEquations ==
  Alt(<<
      Cat(<<Lit(<<68, 101, 108, 116, 97, 45>>), Plus(LowerCls)>>),
      Cat(<<Lit(<<85, 110, 107, 110, 111, 119, 110, 45>>), Plus(UpperCls)>>),
      Cat(<<Lit(<<86, 97, 114, 95>>), Plus(DigitCls)>>),
      Cat(<<Lit(<<88, 95>>), Plus(LowerCls)>>),
      Cat(<<Lit(<<117, 110, 100, 101, 102, 95>>), Plus(LowerCls)>>)>>)

\* patterns.anomalousCode of the first definition (flag g)
AnomalousCode ==
  Alt(<<
      Cat(<<Lit(<<102, 117, 110, 99, 116, 105, 111, 110>>), Plus(SpaceCls), Star(Cls((97..122) \cup (48..57))), Star(SpaceCls), Cls({40}), Star(SpaceCls), Cls({41}), Star(SpaceCls), Opt(Cls({123})), Star(SpaceCls), Cls({125})>>),
      Cat(<<Lit(<<99, 108, 97, 115, 115>>), Plus(SpaceCls), UpperCls, Plus(LowerCls), Star(SpaceCls), Opt(Cls({123})), Star(SpaceCls), Cls({125})>>),
      Cat(<<Lit(<<102, 111, 114>>), Star(SpaceCls), Cls({40}), Star(SpaceCls), Plus(LowerCls), Star(SpaceCls), Lit(<<105, 110>>), Star(SpaceCls), Lit(<<117, 110, 100, 101, 102, 105, 110, 101, 100>>), Star(SpaceCls), Cls({41})>>)>>)

\* patterns.undefinedEntities of the first definition (flags gi)
UndefinedEntities ==
  Cat(<<WordB, Alt(<<
      Cat(<<LitI(<<69, 78, 84, 73, 84, 89, 95>>), Plus(DigitCls)>>),
      Cat(<<LitI(<<85, 78, 68, 69, 70, 95>>), Plus(WordCls)>>),
      Cat(<<LitI(<<85, 78, 75, 78, 79, 87, 78, 95>>), Plus(WordCls)>>),
      Cat(<<LitI(<<77, 89, 83, 84, 69, 82, 89, 95>>), Plus(WordCls)>>),
      Cat(<<LitI(<<65, 78, 79, 77, 65, 76, 89, 95>>), Plus(WordCls)>>)>>), WordB>>)

\* patterns.undefinedWords of the second definition (flags gi)
UndefinedWords2 ==
  Cat(<<WordB, Alt(<<
      LitI(<<117, 110, 100, 101, 102, 105, 110, 101, 100>>),
      LitI(<<117, 110, 107, 110, 111, 119, 110, 95, 118, 97, 114, 105, 97, 98, 108, 101>>),
      LitI(<<117, 110, 107, 110, 111, 119, 110, 95, 99, 111, 110, 115, 116, 97, 110, 116>>),
      LitI(<<110, 117, 108, 108, 95, 114, 101, 102, 101, 114, 101, 110, 99, 101>>),
      LitI(<<118, 111, 105, 100, 95, 112, 97, 114, 97, 109, 101, 116, 101, 114>>)>>), WordB>>)

\* patterns.undefinedEquations of the second definition (flags gi)
UndefinedEquations2 ==
  Alt(<<
      Cat(<<LitI(<<68, 101, 108, 116, 97, 45>>), Plus(LetterCls)>>),
      Cat(<<LitI(<<85, 110, 107, 110, 111, 119, 110, 45>>), Plus(LetterCls)>>),
      Cat(<<LitI(<<117, 110, 100, 101, 102, 105, 110, 101, 100, 95>>), Plus(Cls((65..90) \cup (97..122) \cup (48..57)))>>),
      Cat(<<LitI(<<117, 110, 107, 110, 111, 119, 110, 95>>), Plus(LetterCls)>>),
      Cat(<<Cls({63}), Plus(LetterCls), SpaceCls, LitI(<<116>>)>>)>>)

\* patterns.undefinedCode of the second definition (flags gi)
UndefinedCode2 ==
  Alt(<<
      Cat(<<LitI(<<102, 117, 110, 99, 116, 105, 111, 110>>), Plus(SpaceCls), Star(Cls((65..90) \cup (97..122) \cup (48..57))), Star(SpaceCls), Cls({40}), Star(SpaceCls), Cls({41}), Star(SpaceCls), Cls({123}), Star(SpaceCls), Cls({125})>>),
      Cat(<<LitI(<<99, 108, 97, 115, 115>>), Plus(SpaceCls), LetterCls, Plus(LetterCls), Star(SpaceCls), Cls({123}), Star(SpaceCls), Cls({125}), Star(Dot), Cls({10}), Star(Dot), Cls({123}), Star(SpaceCls), Cls({125})>>),
      Cat(<<LitI(<<102, 111, 114>>), Star(SpaceCls), Cls({40}), Star(SpaceCls), Cls({59}), Star(SpaceCls), Cls({41})>>)>>)

\* patterns.undefinedEntities of the second definition (flags gi)
UndefinedEntities2 ==
  Cat(<<WordB, Alt(<<
      Cat(<<LitI(<<69, 78, 84, 73, 84, 89, 95>>), Plus(DigitCls)>>),
      Cat(<<LitI(<<83, 89, 83, 84, 69, 77, 95>>), Plus(LetterCls)>>),
      Cat(<<LitI(<<85, 78, 68, 69, 70, 95>>), Plus(WordCls)>>)>>), WordB>>)

\* The four checks of a line, in the order the scan makes them, with the
\* type each reports: of the first definition and of the second.
Patterns ==
  <<[type |-> "WORD", re |-> UndefinedWords],
    [type |-> "EQUATION", re |-> UndefinedEquations],
    [type |-> "CODE", re |-> AnomalousCode],
    [type |-> "ENTITY", re |-> UndefinedEntities]>>

Patterns2 ==
  <<[type |-> "WORD", re |-> UndefinedWords2],
    [type |-> "EQUATION", re |-> UndefinedEquations2],
    [type |-> "code", re |-> UndefinedCode2],
    [type |-> "ENTITY", re |-> UndefinedEntities2]>>

\* content.indexOf(line) for a line of the content
IndexOf(content, line) ==
  CHOOSE i \in 0..(Len(content) - Len(line)) :
    /\ SubSeq(content, i + 1, i + Len(line)) = line
    /\ \A j \in 0..(i - 1) : SubSeq(content, j + 1, j + Len(line)) # line

RECURSIVE ScanLine(_, _, _, _, _, _)
\* The checks k.. of line number n: each pattern's exec goes on from the
\* lastIndex its exec on the line before has left.
ScanLine(patterns, content, line, n, k, lastIndexes) ==
  IF k > Len(patterns) THEN [anomalies |-> <<>>, lastIndexes |-> lastIndexes]
  ELSE LET m == Exec(patterns[k].re, line, lastIndexes[k])
           rest == ScanLine(patterns, content, line, n, k + 1,
                            [lastIndexes EXCEPT ![k] = m.lastIndex])
       IN [anomalies |->
             (IF m.found
                THEN <<[type |-> patterns[k].type, item |-> m.item,
                        position |-> IndexOf(content, line), line |-> n]>>
                ELSE <<>>) \o rest.anomalies,
           lastIndexes |-> rest.lastIndexes]

RECURSIVE ScanLines(_, _, _, _, _)
\* lines.forEach from line number n on
ScanLines(patterns, content, lines, n, lastIndexes) ==
  IF n > Len(lines) THEN <<>>
  ELSE LET scanned == ScanLine(patterns, content, lines[n], n, 1, lastIndexes)
       IN scanned.anomalies \o ScanLines(patterns, content, lines, n + 1, scanned.lastIndexes)

\* detectAnomalies(content) with the patterns of one of its definitions:
\* the patterns are created once per call, with lastIndex 0.
detectAnomalies(patterns, content) ==
  ScanLines(patterns, content, Split(content, 10), 1, [k \in 1..Len(patterns) |-> 0])

\* The lines of the scanned contents: one without a match, one for every
\* kind of pattern, one where the match stands further to the right, and
\* one with matches of two kinds.
AnomalyLines ==
  {<<111, 107>>,
   <<117, 110, 100, 101, 102, 105, 110, 101, 100>>,
   <<115, 111, 32, 102, 97, 114, 32, 105, 116, 32, 105, 115, 32, 117, 110, 100, 101, 102, 105, 110, 101, 100>>,
   <<68, 101, 108, 116, 97, 45, 120>>,
   <<102, 117, 110, 99, 116, 105, 111, 110, 32, 102, 40, 41, 123, 125>>,
   <<69, 78, 84, 73, 84, 89, 95, 49>>,
   <<68, 101, 108, 116, 97, 45, 120, 32, 111, 102, 32, 69, 78, 84, 73, 84, 89, 95, 49>>}

\* The scanned contents: one line, or two lines.
AnomalyContents ==
  AnomalyLines \cup {first \o <<10>> \o second : first \in AnomalyLines, second \in AnomalyLines}

\* The archive analysis scans a buffer, with the one or the other definition
\* of detectAnomalies.
DetectAnomalies(patterns, content) ==
  /\ lastCall' = [fn |-> "detectAnomalies",
                  arg |-> [patterns |-> patterns, content |-> content],
                  out |-> detectAnomalies(patterns, content)]
  /\ UNCHANGED <<pageVars, backups, nextId, lastOp, chatSinceSave, changedSinceSave,
                 settingVars, timerVars, response, chatVars, savingVars>>

\* The scans of the archive analysis.
NextScan ==
  \E patterns \in {Patterns, Patterns2}, content \in AnomalyContents :
    DetectAnomalies(patterns, content)

SpecScan == Init /\ [][NextScan]_vars

\* ------------------------------------------------------ the formatters
\* How far from a tier boundary the sampled sizes and ages reach.
MaxOffset == 20

\* ' B'
S_B == <<32, 66>>
\* ' KB'
S_KB == <<32, 75, 66>>
\* ' MB'
S_MB == <<32, 77, 66>>
\* ' GB'
S_GB == <<32, 71, 66>>
\* 'Just now'
S_justNow == <<74, 117, 115, 116, 32, 110, 111, 119>>
\* 'm ago'
S_mAgo == <<109, 32, 97, 103, 111>>
\* 'h ago'
S_hAgo == <<104, 32, 97, 103, 111>>
\* 'd ago'
S_dAgo == <<100, 32, 97, 103, 111>>

\* Date.prototype.toLocaleDateString(): the text depends on the locale of
\* the browser; it is a date, none of the relative forms.
S_localeDate == <<60, 100, 97, 116, 101, 62>>

\* The integer n for which n / scale is nearest to bytes / (1024 * u), the
\* larger one of two: what Number.prototype.toFixed picks for the quotient,
\* which a double holds exactly.  n = floor((scale * bytes + 512 * u) /
\* (1024 * u)), computed on bytes = a * u + b so that no product leaves the
\* 32-bit range.
FixedUnits(bytes, scale, u) ==
  ((scale * (bytes \div u) + 512) + (scale * (bytes % u)) \div u) \div 1024

\* x.toFixed(1) of the number n / 10
ToFixed1(n) == NumText(n \div 10) \o <<46, 48 + (n % 10)>>

\* x.toFixed(2) of the number n / 100
ToFixed2(n) == NumText(n \div 100) \o <<46, 48 + ((n \div 10) % 10), 48 + (n % 10)>>

\* A formatFileSize whose tiers take their upper bound with them.
formatFileSize_UpperInclusive(bytes) ==
  IF bytes <= 1024 THEN NumText(bytes) \o S_B
  ELSE IF bytes <= 1024 * 1024 THEN ToFixed1(FixedUnits(bytes, 10, 1)) \o S_KB
  ELSE IF bytes <= 1024 * 1024 * 1024
    THEN ToFixed2(FixedUnits(bytes, 100, 1024)) \o S_MB
  ELSE ToFixed2(FixedUnits(bytes, 100, 1024 * 1024)) \o S_GB

\* formatFileSize(bytes) for a non-negative integer
formatFileSize(bytes) ==
  IF bytes < 1024 THEN NumText(bytes) \o S_B
  ELSE IF bytes < 1024 * 1024 THEN ToFixed1(FixedUnits(bytes, 10, 1)) \o S_KB
  ELSE IF bytes < 1024 * 1024 * 1024
    THEN ToFixed2(FixedUnits(bytes, 100, 1024)) \o S_MB
  ELSE ToFixed2(FixedUnits(bytes, 100, 1024 * 1024)) \o S_GB

\* A formatTimestamp that still counts minutes in the 61st minute.
formatTimestamp_LateHours(diff) ==
  LET seconds == diff \div 1000
      minutes == seconds \div 60
      hours == minutes \div 60
      days == hours \div 24
  IN IF seconds < 60 THEN S_justNow
     ELSE IF minutes <= 60 THEN NumText(minutes) \o S_mAgo
     ELSE IF hours < 24 THEN NumText(hours) \o S_hAgo
     ELSE IF days < 7 THEN NumText(days) \o S_dAgo
     ELSE S_localeDate

\* formatTimestamp(timestamp) for a valid date, diff = now - date in
\* milliseconds; Math.floor and \div both round towards minus infinity.
formatTimestamp(diff) ==
  LET seconds == diff \div 1000
      minutes == seconds \div 60
      hours == minutes \div 60
      days == hours \div 24
  IN IF seconds < 60 THEN S_justNow
     ELSE IF minutes < 60 THEN NumText(minutes) \o S_mAgo
     ELSE IF hours < 24 THEN NumText(hours) \o S_hAgo
     ELSE IF days < 7 THEN NumText(days) \o S_dAgo
     ELSE S_localeDate

\* The sizes rendered: around every tier boundary, and the halves of a KB.
Sizes ==
  (0..MaxOffset)
    \cup UNION {(b - MaxOffset)..(b + MaxOffset) :
                  b \in {1024, 1024 * 1024, 1024 * 1024 * 1024}}
    \cup {512 * k : k \in 1..MaxOffset}

\* The ages rendered, in milliseconds: around every tier boundary, at the
\* start and at the end of a second, timestamps of the future included.
Ages ==
  {1000 * e + r :
     e \in UNION {(b - MaxOffset)..(b + MaxOffset) :
                    b \in {0, 60, 3600, 24 * 3600, 7 * 24 * 3600}},
     r \in {0, 999}}

\* A call of a pure function of the library, its argument and its result.
Call(fn, arg, out) == [fn |-> fn, arg |-> arg, out |-> out]

\* The backup list renders a record's size.
FormatFileSize(bytes) ==
  /\ lastCall' = Call("formatFileSize", bytes, formatFileSize(bytes))
  /\ UNCHANGED <<pageVars, backups, nextId, lastOp, chatSinceSave, changedSinceSave,
                 settingVars, timerVars, response, chatVars, savingVars>>

\* The backup list renders a record's age.
FormatTimestamp(diff) ==
  /\ lastCall' = Call("formatTimestamp", diff, formatTimestamp(diff))
  /\ UNCHANGED <<pageVars, backups, nextId, lastOp, chatSinceSave, changedSinceSave,
                 settingVars, timerVars, response, chatVars, savingVars>>

\* The rendering of the backup list.
NextFormat ==
  \/ \E bytes \in Sizes : FormatFileSize(bytes)
  \/ \E diff \in Ages : FormatTimestamp(diff)

SpecFormat == Init /\ [][NextFormat]_vars

\* ============================================================== the claims
\* C1 (round-trip law).  For every conversation history the session reaches
\* and every version tag, encoding with conversationToBinary, packing with
\* binaryToUint8Array and decoding with binaryToConversation returns success
\* with a message list equal to the history.
C1_RoundTrip ==
  IsArray(conversationHistory) =>
    \A v \in Versions :
      LET result == binaryToConversation(
                      binaryToUint8Array(conversationToBinary(conversationHistory, v, S_iso)))
      IN result.success /\ result.data = conversationHistory

\* C2 (save then restore).  When the record a saveBackup created from the
\* history h is restored with no chat since the save, conversationHistory
\* after the restore equals h.
C2_SaveThenRestore ==
  (/\ lastOp.op = "restore"
   /\ HasBackup(lastOp.id)
   /\ ~chatSinceSave) =>
    (FindUnique(lastOp.id).source # JUndef =>
       conversationHistory = FindUnique(lastOp.id).source)

\* C3 (8 bits per unit).  The bit string conversationToBinary returns has
\* exactly 8 bits for every code unit of the envelope's JSON text, and
\* binaryToUint8Array packs it into one byte per code unit, in order, each the
\* unit's low 8 bits.
C3_EightBitsPerUnit ==
  IsArray(conversationHistory) =>
    LET json == Stringify(Envelope(conversationHistory, S_v85, S_iso))
        bits == conversationToBinary(conversationHistory, S_v85, S_iso)
    IN /\ Len(bits) = 8 * Len(json)
       /\ binaryToUint8Array(bits) = [i \in 1..Len(json) |-> json[i] % 256]

C6_MalformedRestore ==
  [][\A b \in backups : (lastOp'.op = "restore" /\ lastOp'.id = b.id) =>
       LET bytes == FromBase64(b.binaryData)
           parsed == JSONParse(BitsToText(uint8ArrayToBinary(bytes)))
           result == binaryToConversation(bytes)
       IN ~parsed.ok =>
            /\ ~result.success
            /\ result.data = JUndef
            /\ result.error # "none"
            /\ UNCHANGED pageVars
            /\ lastOp'.toasts[1] = "Restore Failed"]_vars

\* C6, the case reached: a record whose text is no JSON has been restored
\* after a file import; the failure is shown and the import's file name and
\* status are still there.
C6_Witness ==
  /\ lastOp.op = "restore"
  /\ HasBackup(lastOp.id)
  /\ FindUnique(lastOp.id).binaryData = PayloadBase64[9]
  /\ lastOp.toasts[1] = "Restore Failed"
  /\ originalBinaryFileName = "upload.bin"
  /\ binaryStatus = Status("loaded", JNum(2))
  /\ conversationHistory = JArr(<<PM1, PM2>>)

\* C7 (malformed payload, file import).  When the text loadBinaryHistory
\* reconstructs from the file is no valid JSON, the import does not fail:
\* conversationHistory is exactly one message of role 'system' whose text is
\* the reconstructed text verbatim, and the status reports 1 fragment loaded.
C7_MalformedImport ==
  lastOp.op = "load" =>
    LET text == LenientText(lastOp.file.bytes) IN
    ~JSONParse(text).ok =>
      /\ binaryStatus = Status("loaded", JNum(1))
      /\ conversationHistory =
           JArr(<<JObj(<<KV(K_role, JStr(S_system)), KV(K_text, JStr(text))>>)>>)

\* C7, the case reached: the file holding the three units {"a has been
\* imported as one system message.
C7_Witness ==
  /\ lastOp.op = "load"
  /\ lastOp.file.bytes = <<123, 34, 97>>
  /\ binaryStatus = Status("loaded", JNum(1))
  /\ conversationHistory =
       JArr(<<JObj(<<KV(K_role, JStr(S_system)), KV(K_text, JStr(<<123, 34, 97>>))>>)>>)

\* C8 (the file import always produces a result).  After loadBinaryHistory,
\* whatever the file held, conversationHistory is a list and the status is
\* not 'Binary decode failed'.
C8_ImportAlwaysLoads ==
  lastOp.op = "load" =>
    /\ binaryStatus.k = "loaded"
    /\ IsArray(conversationHistory)

\* C9 (decoder output shape).  For the bytes of every restored record,
\* binaryToConversation returns success = true with data that is a list, or
\* success = false with an error and no data.
C9_SuccessIsList ==
  (lastOp.op = "restore" /\ HasBackup(lastOp.id)) =>
    LET result == binaryToConversation(FromBase64(FindUnique(lastOp.id).binaryData))
    IN IF result.success
         THEN IsArray(result.data)
         ELSE result.data = JUndef /\ result.error # "none"

\* C10 (truncated payload).  When the export of the current conversation is
\* loaded with its final byte removed: the packer had dropped the trailing
\* bits that fill no group of 8 (one byte per whole group, none added); the
\* strict decoder returns a value for the truncated bytes (a failure value:
\* the truncated text is no JSON); the import loads the truncated text, the
\* payload's text without its last unit, as one system message; and
\* decodeBitstream, given the truncated payload's bits followed by three
\* more, gives the truncated text (trimmed): the three bits are dropped.
C10_TruncatedPayload ==
  [][(lastOp'.op = "load" /\ lastOp'.file.name = "truncated.bin") =>
       \A bits \in {conversationToBinary(conversationHistory, S_v85, S_iso)} :
       \A payload \in {binaryToUint8Array(bits)} :
       \A text \in {BitsToText(uint8ArrayToBinary(payload))} :
       \A cut \in {SubSeq(payload, 1, Len(payload) - 1)} :
       \A cutBits \in {uint8ArrayToBinary(cut) \o <<1, 0, 1>>} :
          /\ Len(payload) = Len(bits) \div 8
          /\ lastOp'.file.bytes = cut
          /\ binaryToConversation(cut) =
               [success |-> FALSE, data |-> JUndef, error |-> "SyntaxError"]
          /\ binaryStatus' = Status("loaded", JNum(1))
          /\ conversationHistory' =
               JArr(<<JObj(<<KV(K_role, JStr(S_system)),
                             KV(K_text, JStr(SubSeq(text, 1, Len(text) - 1)))>>)>>)
          /\ decodeBitstream([n \in 1..Len(cutBits) |-> 48 + cutBits[n]])
               = Trim(SubSeq(text, 1, Len(text) - 1))]_vars

\* C10, the case reached: a truncated export whose bit string did not end
\* on a byte boundary (it holds the byte 130, the first eight of the 14 bits
\* of the code unit 8364) has been imported as one system message.
C10_Witness ==
  /\ lastOp.op = "load"
  /\ lastOp.file.name = "truncated.bin"
  /\ \E i \in 1..Len(lastOp.file.bytes) : lastOp.file.bytes[i] = 130
  /\ binaryStatus = Status("loaded", JNum(1))
  /\ conversationHistory =
       JArr(<<JObj(<<KV(K_role, JStr(S_system)),
                     KV(K_text, JStr(LenientText(lastOp.file.bytes)))>>)>>)

\* C11 (empty input).  For every version tag, the envelope conversationToBinary
\* encodes for the empty history has metadata.messageCount = 0, and decoding
\* the packed bytes with binaryToConversation returns success with the empty
\* list.
C11_EmptyInput ==
  conversationHistory = JArr(<<>>) =>
    \A v \in Versions :
      \A envelope \in {Envelope(conversationHistory, v, S_iso)} :
      \A result \in {binaryToConversation(binaryToUint8Array(
                       conversationToBinary(conversationHistory, v, S_iso)))} :
        /\ GetProp(GetProp(envelope, K_metadata), K_messageCount) = JNum(0)
        /\ result.success
        /\ result.data = JArr(<<>>)

\* C12 (idempotent re-encode).  When the record just restored decodes
\* successfully to a message list L, encoding L again (conversationToBinary,
\* binaryToUint8Array) and decoding the result returns success with L.
C12_IdempotentReencode ==
  (lastOp.op = "restore" /\ HasBackup(lastOp.id)) =>
    \A first \in {RestoreResult(FindUnique(lastOp.id).binaryData)} :
      (first.success /\ IsArray(first.data)) =>
        \A second \in {binaryToConversation(binaryToUint8Array(
                         conversationToBinary(first.data, S_v85, S_iso)))} :
          /\ second.success
          /\ second.data = first.data

\* C13 (fileSize of the store).  Every record of the table has a fileSize
\* equal to the byte length of its own base64-decoded binaryData.
C13_FileSize ==
  \A b \in backups : b.fileSize = Len(FromBase64(b.binaryData))

\* C13, the case reached: a client has just posted the object payload, and
\* the record's fileSize is the payload's byte count, less than the length of
\* the base64 text stored beside it.
C13_Witness ==
  /\ lastOp.op = "post"
  /\ \E b \in backups :
       /\ b.id = lastOp.id
       /\ b.binaryData = PayloadBase64[2]
       /\ b.fileSize = Len(PayloadBytes[2])
       /\ b.fileSize < Len(b.binaryData)

\* C14 (not-found contract).  A get (the restore's) or a delete of an id the
\* table does not hold answers 404 and leaves the table as it is; a delete of
\* an id the table holds answers 200 and removes exactly that record, so that
\* neither the table nor the list holds the id afterwards.
C14_NotFoundContract ==
  [][/\ (lastOp'.op \in {"restore", "delete"} /\ ~HasBackup(lastOp'.id)) =>
          /\ response' = 404
          /\ backups' = backups
     /\ (lastOp'.op = "delete" /\ HasBackup(lastOp'.id)) =>
          /\ response' = 200
          /\ backups' = backups \ {FindUnique(lastOp'.id)}
          /\ \A b \in backups' : b.id # lastOp'.id
          /\ \A e \in ListBackups' : e.id # lastOp'.id]_vars

\* C15 (auto-save saves only on change).  The auto-save timer creates a
\* backup only when conversationHistory has been set since the last backup
\* was saved: two firings with no change in between do not both create a
\* backup.
C15_SavesOnlyOnChange ==
  [][(lastOp'.op = "autosave" /\ backups' # backups) => changedSinceSave]_vars

\* C16 (auto-save eventually saves).  While auto-save is on with a positive
\* interval, conversationHistory is non-empty and the table has room, a
\* backup is eventually created, also when conversationHistory keeps
\* changing more often than once per interval.
C16_EventuallySaves ==
  \A n \in AutoBackupIds :
    [](( /\ autoSaveEnabled
         /\ autoSaveInterval > 0
         /\ LengthOf(conversationHistory).v > 0
         /\ nextId = n )
       => <>( \/ ~autoSaveEnabled
              \/ autoSaveInterval <= 0
              \/ LengthOf(conversationHistory).v = 0
              \/ nextId > n ))

\* C17 (at most one auto-save timer).  At most one interval timer is active,
\* and none while auto-save is off or the interval is not positive.
C17_AtMostOneTimer ==
  /\ Cardinality(timers) <= 1
  /\ (~autoSaveEnabled \/ autoSaveInterval <= 0) => timers = {}

\* C17, the case reached: auto-save is on, the interval has been set to 2, a
\* minute has passed and the user has chatted since; the one timer is the one
\* started by the last run of the effect, on the conversation as it is now.
C17_Witness ==
  /\ autoSaveEnabled
  /\ autoSaveInterval = 2
  /\ lastOp.op = "chat"
  /\ timers = {Timer(cleanup, 2, conversationHistory)}
  /\ LengthOf(conversationHistory) = JNum(2)
  /\ cleanup # 0

\* C18 (both routes unpack identically).  For every byte array, the text the
\* file import reconstructs (LenientText) equals, code unit for code unit,
\* the text the strict route reconstructs (uint8ArrayToBinary, then the
\* regrouping loop): for the bytes of every file the session imports, and
\* for every sample byte array (a fact about the two functions alone, looked
\* at once, in the initial state).
C18_SameUnpacking ==
  /\ lastOp.op = "load" =>
       \A bytes \in {lastOp.file.bytes} :
         LenientText(bytes) = BitsToText(uint8ArrayToBinary(bytes))
  /\ lastOp.op = "init" =>
       \A bytes \in SampleByteArrays :
         LenientText(bytes) = BitsToText(uint8ArrayToBinary(bytes))

\* C18, the case reached: a downloaded backup with bytes above 127 has been
\* imported.
C18_Witness ==
  /\ lastOp.op = "load"
  /\ lastOp.file.name = "EMG_BACKUP.bin"
  /\ \E i \in 1..Len(lastOp.file.bytes) : lastOp.file.bytes[i] = 233
  /\ binaryStatus = Status("loaded", JNum(2))

\* C19 (export/import compatibility).  The download of a record saveBackup
\* created is the record's base64-decoded bytes, and importing that file with
\* loadBinaryHistory leaves the message list that restoring the record with
\* restoreFromBackup yields.
C19_DownloadThenImport ==
  [][\A b \in backups :
       (lastOp'.op = "load" /\ lastOp'.file.name = b.fileName) =>
         \A download \in {DownloadBackup(b.id)} :
         \A result \in {RestoreResult(b.binaryData)} :
           /\ download.status = 200
           /\ download.file.bytes = FromBase64(b.binaryData)
           /\ lastOp'.file = download.file
           /\ RestoreAccepts(result)
           /\ conversationHistory' = result.data]_vars

\* C20 (the decoder ignores version and metadata).  binaryToConversation
\* returns success with the list an envelope carries whatever the envelope's
\* version, timestamp and metadata.messageCount are, a count different from
\* the list's length included: for every sample envelope (a fact about the
\* decoder alone, looked at once, in the initial state), and for the
\* envelopes restored from the table.
C20_DecoderIgnoresMetadata ==
  /\ lastOp.op = "init" =>
       \A list \in {JArr(<<>>), JArr(<<PM1>>), JArr(<<PM1, PM2>>)} :
       \A version \in {S_v85, <<57>>} :
       \A now \in {S_iso, <<50, 48, 50, 55>>} :
       \A count \in {JNum(0), JNum(1), JNum(7), JStr(<<97>>)} :
         binaryToConversation(Stringify(ForeignEnvelope(list, version, now, count)))
           = [success |-> TRUE, data |-> list, error |-> "none"]
  /\ \A b \in backups :
       (/\ lastOp.op = "restore"
        /\ lastOp.id = b.id
        /\ b.binaryData \in {PayloadBase64[11], PayloadBase64[12]}) =>
          /\ conversationHistory = JArr(<<PM1>>)
          /\ binaryStatus = Status("restored", JNum(1))
          /\ lastOp.toasts = <<"Backup Restored">>

\* C20, the case reached: the envelope of version "9" that announces 7
\* messages and carries one has been restored.
C20_Witness ==
  /\ lastOp.op = "restore"
  /\ \E b \in backups : b.id = lastOp.id /\ b.binaryData = PayloadBase64[12]
  /\ conversationHistory = JArr(<<PM1>>)
  /\ binaryStatus = Status("restored", JNum(1))

\* The envelope of a JSON text carries, as metadata.messageCount, the length
\* of the conversationHistory list it holds.
CountMatches(text) ==
  \A r \in {JSONParse(text)} :
    /\ r.ok
    /\ IsArray(GetProp(r.val, K_conversationHistory))
    /\ GetProp(GetProp(r.val, K_metadata), K_messageCount)
         = JNum(Len(GetProp(r.val, K_conversationHistory).v))

\* C21 (messageCount at encode time).  Whenever the conversation is a list,
\* the envelope conversationToBinary builds for it and the envelope
\* exportConversationBinary builds for it both have metadata.messageCount
\* equal to the length of the conversationHistory list in that envelope, and
\* an exported file holds the packed bits of exactly that envelope.
C21_MessageCountAtEncode ==
  /\ IsArray(conversationHistory) =>
       /\ \A version \in Versions :
            CountMatches(Stringify(Envelope(conversationHistory, version, S_iso)))
       /\ CountMatches(Stringify(ExportEnvelope(conversationHistory, S_iso)))
  /\ lastOp.op = "export" =>
       lastOp.file.bytes = binaryToUint8Array(TextToBits(
         Stringify(ExportEnvelope(conversationHistory, S_iso))))

\* C21, the case reached: a conversation of at least one message has been
\* saved back under the name of the file it was imported from.
C21_Witness ==
  /\ lastOp.op = "export"
  /\ lastOp.toasts = <<"Save Complete">>
  /\ IsArray(conversationHistory)
  /\ Len(conversationHistory.v) >= 1

\* The text ends with the given suffix.
EndsWith(text, suffix) ==
  /\ Len(text) >= Len(suffix)
  /\ SubSeq(text, Len(text) - Len(suffix) + 1, Len(text)) = suffix

\* C22 (size formatting tiers).  formatFileSize(n) renders B exactly for
\* 0 <= n < 1024, KB exactly for 1024 <= n < 1024^2, MB exactly for
\* 1024^2 <= n < 1024^3 and GB from 1024^3 on; 1023 renders as '1023 B',
\* 1024 as '1.0 KB' and 1048576 as '1.00 MB'.
C22_SizeTiers ==
  lastCall.fn = "formatFileSize" =>
    \A n \in {lastCall.arg}, out \in {lastCall.out} :
      /\ EndsWith(out, S_B) <=> n < 1024
      /\ EndsWith(out, S_KB) <=> (1024 <= n /\ n < 1024 * 1024)
      /\ EndsWith(out, S_MB) <=> (1024 * 1024 <= n /\ n < 1024 * 1024 * 1024)
      /\ EndsWith(out, S_GB) <=> 1024 * 1024 * 1024 <= n
      /\ n < 1024 => out = Digits(n) \o S_B
      /\ n = 1023 => out = <<49, 48, 50, 51, 32, 66>>
      /\ n = 1024 => out = <<49, 46, 48, 32, 75, 66>>
      /\ n = 1048576 => out = <<49, 46, 48, 48, 32, 77, 66>>

\* C22, the case reached: exactly 1024 bytes have been rendered as '1.0 KB'.
C22_Witness ==
  /\ lastCall.fn = "formatFileSize"
  /\ lastCall.arg = 1024
  /\ lastCall.out = <<49, 46, 48, 32, 75, 66>>

\* C23 (relative time tiers).  With e the elapsed whole seconds,
\* formatTimestamp renders 'Just now' when e < 60, floor(e/60) 'm ago' when
\* e < 3600, floor(e/3600) 'h ago' when e < 86400, floor(e/86400) 'd ago'
\* when e < 7 days and a date otherwise; 59 s renders 'Just now', 60 s
\* '1m ago' and 3600 s '1h ago'.
C23_TimeTiers ==
  lastCall.fn = "formatTimestamp" =>
    \A e \in {lastCall.arg \div 1000}, out \in {lastCall.out} :
      /\ e < 60 => out = S_justNow
      /\ (60 <= e /\ e < 3600) => out = Digits(e \div 60) \o S_mAgo
      /\ (3600 <= e /\ e < 86400) => out = Digits(e \div 3600) \o S_hAgo
      /\ (86400 <= e /\ e < 7 * 86400) => out = Digits(e \div 86400) \o S_dAgo
      /\ 7 * 86400 <= e => out = S_localeDate
      /\ e = 59 => out = <<74, 117, 115, 116, 32, 110, 111, 119>>
      /\ e = 60 => out = <<49, 109, 32, 97, 103, 111>>
      /\ e = 3600 => out = <<49, 104, 32, 97, 103, 111>>

\* C23, the case reached: a timestamp 3600 s and 999 ms old has been
\* rendered as '1h ago'.
C23_Witness ==
  /\ lastCall.fn = "formatTimestamp"
  /\ lastCall.arg = 3600999
  /\ lastCall.out = <<49, 104, 32, 97, 103, 111>>

\* Every code unit of the text is in 0..255.
EightBitClean(text) == \A i \in 1..Len(text) : text[i] <= 255

\* C24 (round trip on 8-bit-clean text).  For every conversation list the
\* session reaches and every version tag for which the envelope's JSON text
\* holds only code units from 0 to 255, packing the bit string
\* conversationToBinary returns and decoding the bytes with
\* binaryToConversation returns that list, and unpacking the bytes with
\* uint8ArrayToBinary gives back the bit string.
C24_CleanRoundTrip ==
  IsArray(conversationHistory) =>
    \A v \in Versions :
      EightBitClean(Stringify(Envelope(conversationHistory, v, S_iso))) =>
        \A s \in {conversationToBinary(conversationHistory, v, S_iso)} :
        \A bytes \in {binaryToUint8Array(s)} :
        \A result \in {binaryToConversation(bytes)} :
          /\ uint8ArrayToBinary(bytes) = s
          /\ result.success
          /\ result.data = conversationHistory

\* C24, the case reached: a conversation holding the code unit 233, which
\* needs all 8 bits, has been saved and restored from its record.
C24_Witness ==
  /\ lastOp.op = "restore"
  /\ lastOp.toasts = <<"Backup Restored">>
  /\ IsArray(conversationHistory)
  /\ EightBitClean(Stringify(Envelope(conversationHistory, S_v85, S_iso)))
  /\ \E i \in 1..Len(conversationHistory.v) :
       \E k \in 1..Len(GetProp(conversationHistory.v[i], K_text).v) :
         GetProp(conversationHistory.v[i], K_text).v[k] = 233

\* C25 (restore success is reported only on success).  A restore that shows
\* 'Backup Restored' has replaced conversationHistory: it shows no 'Restore
\* Failed' and the status line tells of the restore.
C25_SuccessOnlyOnSuccess ==
  (/\ lastOp.op = "restore"
   /\ \E i \in 1..Len(lastOp.toasts) : lastOp.toasts[i] = "Backup Restored") =>
    /\ \A i \in 1..Len(lastOp.toasts) : lastOp.toasts[i] # "Restore Failed"
    /\ binaryStatus.k = "restored"

\* C26 (the file name tracks the loaded conversation).  originalBinaryFileName
\* takes a file's name only in a step that imports that file and loads
\* conversationHistory from it, and a step that restores a record or reloads
\* the page leaves no file name.
C26_NameTracksLoad ==
  [][/\ (/\ originalBinaryFileName' # originalBinaryFileName
          /\ originalBinaryFileName' # NoName) =>
         /\ lastOp'.op = "load"
         /\ lastOp'.file.name = originalBinaryFileName'
         /\ binaryStatus'.k = "loaded"
     /\ (/\ lastOp'.op \in {"restore", "reload"}
         /\ conversationHistory' # conversationHistory) =>
         originalBinaryFileName' = NoName]_vars

\* C27 (isSaving reflects in-flight saves).  isSaving is true whenever at
\* least one saveBackup request is in flight: when a manual save and an
\* auto-save overlap, isSaving stays true until both have completed.
C27_SavingWhileInFlight ==
  inflight # {} => isSaving

\* C28 (processing always ends).  After a chat submission, whatever gate it
\* went through, and after a connect attempt, status is 'online' or
\* 'offline', never 'processing'.
C28_ProcessingEnds ==
  lastOp.op \in {"chat", "connect"} => status \in {"online", "offline"}

\* The step added n fragments at the end of memory, and memory keeps, in
\* their order, as many of the fragments before as fit into 6.
Window(n) ==
  /\ Len(memory') = (IF Len(memory) + n > 6 THEN 6 ELSE Len(memory) + n)
  /\ SubSeq(memory', 1, Len(memory') - n)
       = SubSeq(memory, Len(memory) - (Len(memory') - n) + 1, Len(memory))

\* C29 (bounded memory fragments).  In every step memory holds at most 6
\* fragments, all of role user or ai.  A chat submission appends the user's
\* fragment and, unless it throws, one or two ai fragments after it; an
\* import that loads appends one ai fragment; the oldest fragments leave
\* first and the order of the rest is kept.  No other step but a reload
\* changes memory.
C29_BoundedMemory ==
  [][/\ Len(memory') <= 6
     /\ \A i \in 1..Len(memory') : memory'[i].role \in {S_user, S_ai}
     /\ lastOp'.op = "chat" =>
          \E n \in 1..3 :
            /\ Window(n)
            /\ memory'[Len(memory') - n + 1].role = S_user
            /\ \A i \in (Len(memory') - n + 2)..Len(memory') : memory'[i].role = S_ai
            /\ status' # "processing" => n >= 2
     /\ (lastOp'.op = "load" /\ binaryStatus'.k = "loaded") =>
          /\ Window(1)
          /\ memory'[Len(memory')].role = S_ai
     /\ lastOp'.op \notin {"chat", "load", "reload"} => memory' = memory]_vars

\* C29, the case reached: memory is full and begins with the last fragment
\* of a reflective reply, whose first two fragments have left it.
C29_Witness ==
  /\ lastOp.op = "chat"
  /\ Len(memory) = 6
  /\ memory[1] = [role |-> S_ai, text |-> S_reflective]

\* C30 (the anomaly scan is per line and stateless).  For every scanned
\* content, every line of it and each of the four pattern kinds,
\* detectAnomalies reports an anomaly of that kind with that line's 1-based
\* number exactly when the line contains a match of the pattern.
C30_PerLineStateless ==
  lastCall.fn = "detectAnomalies" =>
    \A patterns \in {lastCall.arg.patterns} :
    \A lines \in {Split(lastCall.arg.content, 10)} :
    \A n \in 1..Len(lines), k \in 1..Len(patterns) :
      (\E i \in 1..Len(lastCall.out) :
         lastCall.out[i].type = patterns[k].type /\ lastCall.out[i].line = n)
        <=> Exec(patterns[k].re, lines[n], 0).found
====
